---- MODULE Spec2Model ----
(***************************************************************************)
(* cortexd SystemMonitor (daemon/src/monitor/system_monitor.cpp): the      *)
(* health-check scheduler (start/stop/monitor_loop/run_checks), the        *)
(* snapshot store (current_snapshot_ under snapshot_mutex_) and the alert  *)
(* enrichment threads (create_smart_alert, ai_threads_, the destructor).   *)
(*                                                                         *)
(* Threads: the callers of the public interface (Callers), the monitor     *)
(* threads spawned by start() (Workers, thread slots) and the AI analysis  *)
(* threads spawned by create_smart_alert (Tasks, thread slots).            *)
(*                                                                         *)
(* Granularity: every access to an atomic (running_, check_requested_, a   *)
(* done flag) is a step of its own.  A lock_guard scope on snapshot_mutex_ *)
(* is one step: the mutex makes it atomic and nothing inside it blocks.    *)
(* ai_threads_mutex_ is held across blocking join() calls and is a         *)
(* variable.  Code that touches only locals of the thread is part of the   *)
(* step that follows it.                                                   *)
(***************************************************************************)
EXTENDS Naturals, Sequences, FiniteSets

\* ---------------------------------------------------------------- bounds
\* thread slots for AI analysis threads that exist at one time
MaxTasks == 2
\* create_smart_alert calls one check_thresholds run makes (the code: 0..3)
MaxDue == 1
\* trigger_check calls counted by the observers before they saturate
MaxTrig == 2

Callers == {"c1", "c2"}
Workers == {"w1", "w2"}
Threads == Callers \cup Workers
Tasks == 1 .. MaxTasks

NoThread == "none"
\* HealthSnapshot: `by` stands for the timestamp (the check that filled it in is
\* known by the thread that ran it; NoThread = default-constructed), `due` for
\* the fields check_thresholds reads (how many thresholds the snapshot crosses).
NoSnap == [by |-> NoThread, due |-> 0]

VARIABLES
    running,          \* std::atomic<bool> running_
    check_requested,  \* std::atomic<bool> check_requested_
    monitor_thread,   \* monitor_thread_: the worker it refers to while joinable, else NoThread
    ai_threads_mutex, \* owner of ai_threads_mutex_ or NoThread
    current_snapshot, \* current_snapshot_
    ai_threads,       \* ai_threads_: sequence of task slots
    configured,       \* http_llm_client_->is_configured()
    pc,               \* position of every caller and worker thread
    published,        \* the thread's running check has filled in current_snapshot_
    copy,             \* run_checks' local snapshot_copy
    todo,             \* create_smart_alert calls check_thresholds still has to make
    held,             \* create_smart_alert's local ai_thread (task slot or 0)
    ret,              \* the snapshot a caller's operation returned
    target,           \* the worker a caller's join() waits for
    dtor,             \* the caller running ~SystemMonitor, or NoThread
    it,               \* position of the destructor's loop over ai_threads_
    destroyed,        \* ~SystemMonitor has returned (members released)
    crashed,          \* std::terminate was called
    tasks,            \* AI analysis threads: position, done flag, observers
    obs,              \* observers of the scheduler (history only, never read by the code)
    proc_stat,        \* the kernel's CPU counters, first line of /proc/stat
    prev_cpu_counters,          \* system_monitor.h:123
    cpu_counters_initialized,   \* system_monitor.h:124
    cpu_mutex,        \* the thread inside the section of cpu_mutex_, or NoThread
    apt_counter,      \* system_monitor.h:119, kept modulo AptEvery
    metrics,          \* the usage fields of current_snapshot_
    chk,              \* the locals of each thread's run_checks()
    now,              \* the steady clock, in milliseconds
    limiter,          \* RateLimiter: count, window_start and its mutex
    req,              \* each client's call of the RateLimiter
    lobs,             \* observer of the windows (history only, never read by the code)
    conn,             \* the dispatcher's session of each connection thread
    server,           \* SocketServer: running_, server_fd_, accept_thread_, socket file
    acc,              \* the accept thread of the SocketServer and its connection
    ctl,              \* the thread that calls start() and stop() of the SocketServer
    handlers,         \* the dispatcher's registry: method name -> handler (0: none)
    handlers_mutex,   \* the thread inside the section of the registry's mutex, or NoThread
    reg,              \* each registering thread's call of register_handler
    hobs,             \* observer of the registrations (history only, never read by the code)
    resp,             \* the Response a handler or the dispatcher has built
    wire,             \* what Response::to_json() returned for it, and from what
    te,               \* one call of check_thresholds: its inputs, position and alerts
    lk,               \* the mutexes of the SystemMonitor and where each thread stands among them
    iq                \* InferenceQueue: its members, its threads and the system clock

\* The threads of the SystemMonitor: scheduler, snapshot store, AI analysis.
MonVars == <<running, check_requested, monitor_thread, ai_threads_mutex,
             current_snapshot, ai_threads, configured, pc, published, copy, todo,
             held, ret, target, dtor, it, destroyed, crashed, tasks, obs>>

\* What the steps of those threads leave as it is.
CollectVars == <<proc_stat, prev_cpu_counters, cpu_counters_initialized, cpu_mutex,
                 apt_counter, metrics, chk>>
LimiterVars == <<now, limiter, req, lobs>>
DispatchVars == <<conn>>
SockVars == <<server, acc, ctl>>
RegistryVars == <<handlers, handlers_mutex, reg, hobs>>
WireVars == <<resp, wire>>
EvalVars == <<te>>
LockVars == <<lk>>
QueueVars == <<iq>>
Rest == <<CollectVars, LimiterVars, DispatchVars, SockVars, RegistryVars, WireVars, EvalVars,
          LockVars, QueueVars>>

\* What the collectors of run_checks leave as it is.
NotCollect == <<MonVars, LimiterVars, DispatchVars, SockVars, RegistryVars, WireVars, EvalVars,
                LockVars, QueueVars>>
\* What the RateLimiter leaves as it is.
NotLimiter == <<MonVars, CollectVars, DispatchVars, SockVars, RegistryVars, WireVars, EvalVars,
                LockVars, QueueVars>>
\* What a session of the dispatcher leaves as it is, the RateLimiter apart.
NotDispatch == <<MonVars, CollectVars, SockVars, RegistryVars, WireVars, EvalVars,
                 LockVars, QueueVars>>
\* What the SocketServer leaves as it is.
NotSock == <<MonVars, CollectVars, LimiterVars, DispatchVars, RegistryVars, WireVars, EvalVars,
             LockVars, QueueVars>>
\* What register_handler leaves as it is.
NotRegistry == <<MonVars, CollectVars, LimiterVars, DispatchVars, SockVars, WireVars, EvalVars,
                 LockVars, QueueVars>>
\* What check_thresholds' evaluation leaves as it is.
NotEval == <<MonVars, CollectVars, LimiterVars, DispatchVars, SockVars, RegistryVars, WireVars,
             LockVars, QueueVars>>
\* What the lock discipline of the SystemMonitor leaves as it is.
NotLocks == <<MonVars, CollectVars, LimiterVars, DispatchVars, SockVars, RegistryVars,
              WireVars, EvalVars, QueueVars>>
\* What the InferenceQueue leaves as it is.
NotQueue == <<MonVars, CollectVars, LimiterVars, DispatchVars, SockVars, RegistryVars,
              WireVars, EvalVars, LockVars>>
\* What Response and its to_json() leave as they are, the clock apart.
NotWire == <<MonVars, CollectVars, DispatchVars, SockVars, RegistryVars, EvalVars,
             LockVars, QueueVars>>

vars == <<MonVars, Rest>>

\* ------------------------------------------------------------- helpers
\* threw: an exception left the lambda's try block;
\* strong: the lambda's alert_mgr (the shared_ptr weak_alert_mgr.lock() gave) is
\* held; parent: the captured alert_id; analysis: the lambda's ai_analysis
\* ("text", "empty" for ""); message, ref: the body and the parent_alert_id of
\* the secondary alert it created.  parent, analysis, message and ref are
\* recorded only while obs.detail is set.
NoTask == [pc |-> "none", done |-> FALSE, cancelled |-> FALSE, backend |-> FALSE,
           secondary |-> 0, lateSubmit |-> FALSE, threw |-> FALSE, strong |-> FALSE,
           parent |-> 0,
           analysis |-> "none", message |-> "none", ref |-> 0]

\* on: the observers record; sinceWake/sinceClear: trigger_check calls since the
\* worker's last wake / last clearing of the flag; wokeWith, sawFlag: sinceWake
\* and check_requested_ at the last wake; sawElapsed: the interval had elapsed
\* at the last wake; wakeChecks: checks the worker has started since its last
\* wake; woke: the worker has woken at least once; owed: 0 when every
\* trigger_check call made while the worker runs has been followed by the start
\* of a check, else 1 + the polling wakes since the oldest call that has not
\* (at most MaxTrig + 1); stopWakes, stopChecks: the polling wakes and the check
\* starts of the worker since stop() last cleared running_.
\* detail: the observers of create_smart_alert record; call[t]: what the
\* create_smart_alert call thread t is in has done (prim: the primary alert's
\* create returned an id "ok" or "" "failed"; spawned: threads it started);
\* last[t]: the same for the last call of t that returned.
NoCall == [prim |-> "none", spawned |-> 0]

NoObs == [on |-> FALSE, sinceWake |-> 0, sinceClear |-> 0, wokeWith |-> 0,
          sawFlag |-> FALSE, sawElapsed |-> FALSE, wakeChecks |-> 0, woke |-> FALSE,
          owed |-> 0, stopWakes |-> 0, stopChecks |-> 0, detail |-> FALSE,
          call |-> [t \in Threads |-> NoCall], last |-> [t \in Threads |-> NoCall]]

Min(S) == CHOOSE x \in S : \A y \in S : x <= y

Sat(n) == IF n < MaxTrig THEN n + 1 ELSE MaxTrig

AliveWorkers == {w \in Workers : pc[w] \notin {"none", "exited"}}

\* ------------------------------------------------------------ collectors
MaxJiffies == 4       \* the kernel's counters stop advancing at this total
Levels == {0, 60}     \* usage percentages a memory or disk collector reports
Pending == {0, 1}     \* numbers of pending updates the package collector reports
AptEvery == 5         \* check_updates() runs on every fifth check

\* threads that run run_checks(): the worker and a force_check() caller
Checkers == {"w1", "c1"}

\* CpuCounters: user+nice+system as used, idle+iowait as idle
ZeroCounters == [used |-> 0, idle |-> 0]
BootCounters == [used |-> 1, idle |-> 1]
total(c) == c.used + c.idle
used(c) == c.used

\* HealthSnapshot's usage fields, all 0 by default
NoMetrics == [cpu |-> 0, mem |-> 0, disk |-> 0, pending |-> 0]

\* a thread outside run_checks(); cpuFailed: the sample of this check could not
\* be read; failed: the collector that ended the last check
NoCheck == [pc |-> "idle", current |-> ZeroCounters, cpu_usage |-> 0, mem |-> 0,
            disk |-> 0, pending |-> 0, cpuFailed |-> FALSE, failed |-> "none"]

\* ------------------------------------------------------------ RateLimiter
Limit == 2            \* the limit the RateLimiter is constructed with
MaxCalls == 4         \* allow() calls in one behaviour
MaxRegs == 3          \* register_handler calls in one behaviour
MaxResets == 1        \* reset() calls in one behaviour
MaxClock == 2000      \* the clock stops here
MsPerSecond == 1000   \* Clock::to_time_t counts seconds
ClockStep == 500      \* the clock advances by this much
WindowSize == 1000    \* window_size, in milliseconds

\* threads that call the RateLimiter
Clients == {"r1", "r2"}

\* a client outside the RateLimiter; t: the time its call read, verdict: what
\* allow() returns; rank, kind, rolled: the call's place in the observed window
NoReq == [pc |-> "idle", t |-> 0, verdict |-> FALSE, rank |-> 0, kind |-> "none",
          rolled |-> FALSE]

\* the window the calls fall in, by the clock alone: begun at construction
\* ("fresh"), by the first call evaluated a full window after its begin
\* ("rolled"), or by reset(); seen and admitted count its calls
NoWindow == [start |-> 0, kind |-> "fresh", epoch |-> 0, seen |-> 0, admitted |-> 0,
             calls |-> 0, resets |-> 0]

\* ------------------------------------------------------------ dispatcher
\* what a client sends: bytes that are not JSON, a JSON array, an object
\* without "method", an object whose "method" is a number, and the requests
\* of the methods "ping" and "bogus"
Messages == {"garbage", "array", "nomethod", "nummethod", "ping", "bogus"}

\* json::parse(raw), protocol.cpp:13: the JSON value, or the json::exception
\* it throws; method: the kind of the value under the key "method"
JsonParse(raw) ==
    CASE raw = "garbage"   -> [type |-> "exception", method |-> "absent", name |-> "none"]
      [] raw = "array"     -> [type |-> "array", method |-> "absent", name |-> "none"]
      [] raw = "nomethod"  -> [type |-> "object", method |-> "absent", name |-> "none"]
      [] raw = "nummethod" -> [type |-> "object", method |-> "number", name |-> "none"]
      [] OTHER             -> [type |-> "object", method |-> "string", name |-> raw]

\* std::nullopt of std::optional<Request>
Nullopt == [has |-> FALSE, method |-> "none"]

\* Request::parse taking the method of every JSON object.
RequestParse_lenient(raw) ==
    LET j == JsonParse(raw)
    IN  IF j.type = "object" THEN [has |-> TRUE, method |-> j.name] ELSE Nullopt

\* Request::parse, protocol.cpp:11-46: no request when json::parse throws
\* (line 42) or "method" is absent or not a string (line 18)
RequestParse(raw) ==
    LET j == JsonParse(raw)
        contains == j.type = "object" /\ j.method # "absent"
    IN  IF j.type = "exception" THEN Nullopt
        ELSE IF ~contains \/ j.method # "string" THEN Nullopt
        ELSE [has |-> TRUE, method |-> j.name]

\* a connection thread with no session; admitted: the RateLimiter's verdict
\* ("none" before it), rank: the request's place in its window, parsed,
\* looked, invoked: what has been done with the request
NoConn == [st |-> "None", msg |-> "none", admitted |-> "none", rank |-> 0,
           parsed |-> FALSE, method |-> "none", looked |-> FALSE, invoked |-> FALSE,
           response |-> "none", handler |-> 0, result |-> 0]

\* ------------------------------------------------------------ handler registry
\* the method names a request can carry
Methods == {"ping", "bogus"}
\* the threads that call register_handler while the dispatcher serves
Registrars == {"g1", "g2"}
\* the handlers: 1 is the one installed before the dispatcher starts, the
\* others are numbered by the call that registers them; 0 is no handler
Handlers == 1..(MaxRegs + 1)
\* the registry when serving starts: "ping" has its handler
BootHandlers == [m \in Methods |-> IF m = "ping" THEN 1 ELSE 0]
\* a registering thread outside register_handler
NoReg == [pc |-> "idle", method |-> "none", handler |-> 0]
\* the registrations when serving starts; calls: the calls made since;
\* of[h]: the method handler h was registered for; returned: the handlers
\* whose registration has returned; prior[h]: the handlers of the same method
\* whose registration had returned when the call registering h began
NoRegistrations == [calls |-> 0,
                    of |-> [h \in Handlers |-> IF h = 1 THEN "ping" ELSE "none"],
                    returned |-> {1},
                    prior |-> [h \in Handlers |-> {}]]
\* what a handler returns when it does not throw: each handler its own value
HandlerResult(h) == h

\* ------------------------------------------------------------ check_thresholds
\* usage percentages of a snapshot and the thresholds of the configuration,
\* in percent (the code compares usage / 100.0 with a fraction)
Percentages == {50, 80, 90, 95}
Thresholds == {80, 95}
\* the configurations: warn and crit threshold of disk and of memory
Configs == [disk_warn : Thresholds, disk_crit : Thresholds,
            mem_warn : Thresholds, mem_crit : Thresholds]
\* no call of check_thresholds yet; alert_manager: alert_manager_ is not null;
\* emitted: the create_smart_alert calls of the evaluation, in order
NoEval == [pc |-> "idle", alert_manager |-> TRUE, disk |-> 50, memory |-> 50,
           security_updates |-> 0,
           config |-> [disk_warn |-> 80, disk_crit |-> 95, mem_warn |-> 80, mem_crit |-> 95],
           emitted |-> <<>>]
AlertRequest(severity, type) == [severity |-> severity, type |-> type]

\* ------------------------------------------------------------ Response
\* what a handler returns as its result: an empty object, {"pong": true}, or
\* a value with a string that is not UTF-8
Results == {"empty", "pong", "badutf8"}
\* the messages of an error: the last one is not UTF-8
ErrorMessages == {"Test error", "Not found", "badutf8"}
\* the error codes: the default of Response::err, METHOD_NOT_FOUND, INTERNAL_ERROR
ErrorCodes == {"-1", "-32601", "-32603"}
\* a Response before Response::ok or Response::err fills it in
DefaultResponse == [success |-> FALSE, result |-> "null", error |-> "", error_code |-> "0"]
\* nothing serialised yet; out: the JSON object of the last to_json() that
\* returned, of: the Response it was made from, threw: the last to_json() threw
NoWire == [out |-> <<>>, of |-> DefaultResponse, threw |-> FALSE]

\* to_json() writing "result" whatever success is.
ToJson_both(r, t) ==
    IF r.success
        THEN [success |-> r.success, timestamp |-> t, result |-> r.result]
        ELSE [success |-> r.success, timestamp |-> t, result |-> r.result,
              error |-> [message |-> r.error, code |-> r.error_code]]

\* Response::to_json(), protocol.cpp:58-71: the JSON object built before dump()
ToJson(r, t) ==
    IF r.success
        THEN [success |-> r.success, timestamp |-> t, result |-> r.result]
        ELSE [success |-> r.success, timestamp |-> t,
              error |-> [message |-> r.error, code |-> r.error_code]]

\* json::dump() throws on a string that is not UTF-8 (protocol.cpp:72)
DumpThrows(j) ==
    \/ "result" \in DOMAIN j /\ j.result = "badutf8"
    \/ "error" \in DOMAIN j /\ j.error.message = "badutf8"

\* ------------------------------------------------------------ SocketServer
\* what a client of the SocketServer does after connecting: sends nothing,
\* bytes that are not JSON, a command nobody knows, or a known command
Sent == {"nodata", "garbage", "bogus", "status", "health"}

\* SocketServer after construction (socket_server.cpp:16-18); path: the socket
\* file exists; loops: accept threads started and not yet returned
NoServer == [running |-> FALSE, server_fd |-> "none", path |-> FALSE,
             accept_thread |-> "none", loops |-> 0]

\* a response of the old protocol: a status and no error code
NoResponse == [status |-> "none", code |-> "none"]

\* the accept thread: pc, the connection at hand (msg, cmd, response, open)
\* and what happened to it (threw, sent, closed); admitted: the verdict of a
\* rate limiter on the request, which handle_client never asks for;
\* afterThrow: a handler threw in an earlier connection of this thread
NoAccept == [pc |-> "none", msg |-> "none", cmd |-> "none", response |-> NoResponse,
             open |-> FALSE, admitted |-> "none", threw |-> FALSE, sent |-> 0,
             closed |-> 0, afterThrow |-> FALSE]

\* the caller of start() and stop(): ret, what its last call returned;
\* stopped: a stop() of a running server has returned
NoCtl == [pc |-> "idle", ret |-> "none", stopped |-> FALSE]

\* ------------------------------------------------ the monitor's mutexes
Mutexes == {"snapshot_mutex_", "cpu_mutex_", "ai_threads_mutex_"}

\* The threads of the lock discipline: the monitor thread, the thread that owns
\* the SystemMonitor (start, stop, destructor) and an IPC handler thread
\* (force_check, get_snapshot).
LockThreads == {"w1", "c1", "c2"}
LockCheckers == {"w1", "c2"}

\* holder: the thread inside each mutex; pc: where each thread stands; task: an
\* AI analysis thread is not started ("none"), runs ("run"), has set its done
\* flag ("done") or has ended ("exited"); todo, held: as in check_thresholds
\* and create_smart_alert; it: the position of the loop over ai_threads_ of
\* the thread inside ai_threads_mutex_ (1 when the mutex is free).
NoLocks == [holder |-> [m \in Mutexes |-> NoThread],
            pc |-> [t \in LockThreads |-> IF t = "w1" THEN "none" ELSE "idle"],
            running |-> FALSE,
            ai_threads |-> <<>>,
            task |-> [k \in Tasks |-> "none"],
            todo |-> [t \in LockCheckers |-> 0],
            held |-> [t \in LockCheckers |-> 0],
            it |-> 1]

\* -------------------------------------------------------- InferenceQueue
\* The threads of the InferenceQueue: two clients that enqueue, the thread
\* that starts and stops the queue, and the worker of process_queue.
QueueClients == {"e1", "e2"}
QueueThreads == QueueClients \cup {"s1", "qw"}

\* llm_wrapper.h:59 has 100 and llama_wrapper.cpp:56 compares queue_.size()
\* with 100; the window and the queue are scaled down here, their logic does
\* not depend on the two values.
MAX_REQUESTS_PER_SECOND == 3
QueueCapacity == 3
WINDOW_SIZE_MS == 1000

\* RateLimiter after the constructor (line 16): last_reset is the time of
\* construction, 0 here.
NoRateLimiter == [last_reset |-> 0, requests_in_window |-> 0]

\* queue: the number of pending requests in queue_ (requests are alike here);
\* waiting: the worker is blocked inside queue_cv_.wait; worker_thread: the
\* handle is joinable; clock: std::chrono::system_clock, in milliseconds;
\* seen[e]: what check_rate_limit of client e has computed and not yet
\* written back; admitted: enqueue calls that pushed their request since
\* last_reset was last set (history only); error: what the last enqueue call
\* that returned false reported.
NoQueue == [running |-> FALSE,
            queue |-> 0,
            queue_mutex |-> NoThread,
            waiting |-> FALSE,
            worker_thread |-> FALSE,
            rate_limiter |-> NoRateLimiter,
            clock |-> 0,
            pc |-> [t \in QueueThreads |-> IF t = "qw" THEN "none" ELSE "idle"],
            seen |-> [e \in QueueClients |-> [rate_limiter |-> NoRateLimiter, ok |-> FALSE]],
            admitted |-> 0,
            error |-> "none"]

InitBase ==
    /\ running = FALSE
    /\ check_requested = FALSE
    /\ monitor_thread = NoThread
    /\ ai_threads_mutex = NoThread
    /\ current_snapshot = NoSnap
    /\ ai_threads = <<>>
    /\ pc = [t \in Threads |-> IF t \in Callers THEN "idle" ELSE "none"]
    /\ published = [t \in Threads |-> FALSE]
    /\ copy = [t \in Threads |-> NoSnap]
    /\ todo = [t \in Threads |-> 0]
    /\ held = [t \in Threads |-> 0]
    /\ ret = [c \in Callers |-> NoSnap]
    /\ target = [c \in Callers |-> NoThread]
    /\ dtor = NoThread
    /\ it = 0
    /\ destroyed = FALSE
    /\ crashed = FALSE
    /\ tasks = [k \in Tasks |-> NoTask]
    /\ proc_stat = BootCounters
    /\ prev_cpu_counters = ZeroCounters
    /\ cpu_counters_initialized = FALSE
    /\ cpu_mutex = NoThread
    /\ apt_counter = 0
    /\ metrics = NoMetrics
    /\ chk = [t \in Checkers |-> NoCheck]
    /\ now = 0
    /\ limiter = [count |-> 0, window_start |-> 0, mutex |-> NoThread]
    /\ req = [c \in Clients |-> NoReq]
    /\ lobs = NoWindow
    /\ conn = [c \in Clients |-> NoConn]
    /\ server = NoServer
    /\ acc = NoAccept
    /\ ctl = NoCtl
    /\ handlers = BootHandlers
    /\ handlers_mutex = NoThread
    /\ reg = [g \in Registrars |-> NoReg]
    /\ hobs = NoRegistrations
    /\ resp = DefaultResponse
    /\ wire = NoWire
    /\ te = NoEval
    /\ lk = NoLocks
    /\ iq = NoQueue

Init == InitBase /\ configured \in BOOLEAN /\ obs = NoObs

\* ------------------------------------------------------------ callers
\* the operation has returned (st_running: start() returned at line 135)
DonePcs == {"st_running", "st_done", "sp_done", "gs_done", "fc_done"}
\* inside run_checks() (after its first step)
CheckPcs == {"rc_copy", "csa_create", "csa_spawn", "csa_push"}

\* A member function is called on a live object: not once the destructor has begun.
CanCall(c) == pc[c] = "idle" /\ dtor = NoThread /\ ~crashed

Goto(t, l) == pc' = [pc EXCEPT ![t] = l]

\* start() without the test of line 134.
Start_always(c) ==
    /\ CanCall(c)
    /\ Goto(c, "st_set")
    /\ UNCHANGED <<Rest, running, check_requested, monitor_thread, ai_threads_mutex,
                   current_snapshot, ai_threads, configured, published, copy, todo,
                   held, ret, target, dtor, it, destroyed, crashed, tasks, obs>>

\* start(), line 134: if (running_) return true;
Start(c) ==
    /\ CanCall(c)
    /\ Goto(c, IF running THEN "st_running" ELSE "st_set")
    /\ UNCHANGED <<Rest, running, check_requested, monitor_thread, ai_threads_mutex,
                   current_snapshot, ai_threads, configured, published, copy, todo,
                   held, ret, target, dtor, it, destroyed, crashed, tasks, obs>>

\* start(), line 138: running_ = true;
StartSet(c) ==
    /\ pc[c] = "st_set" /\ ~crashed
    /\ running' = TRUE
    /\ Goto(c, "st_spawn")
    /\ tasks' = [k \in Tasks |-> [tasks[k] EXCEPT !.lateSubmit = FALSE]]
    /\ UNCHANGED <<Rest, check_requested, monitor_thread, ai_threads_mutex,
                   current_snapshot, ai_threads, configured, published, copy, todo,
                   held, ret, target, dtor, it, destroyed, crashed, obs>>

\* start(), line 139: monitor_thread_ = std::make_unique<std::thread>(...).
\* The new thread runs monitor_loop, which begins with run_checks().  Assigning
\* over a handle that is still joinable destroys a joinable std::thread:
\* std::terminate.
StartSpawn(c) ==
    /\ pc[c] = "st_spawn" /\ ~crashed
    /\ \E v \in Workers : pc[v] = "none"
    /\ LET w == CHOOSE v \in Workers : pc[v] = "none" IN
        /\ pc' = [pc EXCEPT ![c] = "st_done", ![w] = "rc_pub"]
        /\ monitor_thread' = w
    /\ crashed' = (monitor_thread # NoThread)
    /\ obs' = [obs EXCEPT !.wokeWith = 0, !.sawFlag = FALSE, !.sawElapsed = FALSE,
                          !.wakeChecks = 0, !.woke = FALSE, !.owed = 0,
                          !.stopWakes = 0, !.stopChecks = 0]
    /\ UNCHANGED <<Rest, running, check_requested, ai_threads_mutex, current_snapshot,
                   ai_threads, configured, published, copy, todo, held, ret, target,
                   dtor, it, destroyed, tasks>>

\* Where stop() goes when it is over: back to its caller, or on in the destructor.
AfterStop(c) == IF dtor = c THEN "d_lock" ELSE "sp_done"

\* stop(), line 147: if (!running_) return;
Stop(c) ==
    /\ CanCall(c) \/ (pc[c] = "sp_test" /\ ~crashed)
    /\ Goto(c, IF running THEN "sp_set" ELSE AfterStop(c))
    /\ UNCHANGED <<Rest, running, check_requested, monitor_thread, ai_threads_mutex,
                   current_snapshot, ai_threads, configured, published, copy, todo,
                   held, ret, target, dtor, it, destroyed, crashed, tasks, obs>>

\* stop(), line 151: running_ = false;
StopSet(c) ==
    /\ pc[c] = "sp_set" /\ ~crashed
    /\ running' = FALSE
    /\ Goto(c, "sp_join")
    /\ obs' = [obs EXCEPT !.stopWakes = 0, !.stopChecks = 0]
    /\ UNCHANGED <<Rest, check_requested, monitor_thread, ai_threads_mutex,
                   current_snapshot, ai_threads, configured, published, copy, todo,
                   held, ret, target, dtor, it, destroyed, crashed, tasks>>

\* stop(), line 153: if (monitor_thread_ && monitor_thread_->joinable())
StopJoinable(c) ==
    /\ pc[c] = "sp_join" /\ ~crashed
    /\ IF monitor_thread # NoThread
       THEN Goto(c, "sp_wait") /\ target' = [target EXCEPT ![c] = monitor_thread]
       ELSE Goto(c, AfterStop(c)) /\ UNCHANGED target
    /\ UNCHANGED <<Rest, running, check_requested, monitor_thread, ai_threads_mutex,
                   current_snapshot, ai_threads, configured, published, copy, todo,
                   held, ret, dtor, it, destroyed, crashed, tasks, obs>>

\* Two threads inside join() of one std::thread, or join() of a std::thread that
\* another thread has joined or replaced meanwhile: undefined behaviour.
JoinRace(c) ==
    \/ monitor_thread # target[c]
    \/ \E d \in Callers \ {c} : pc[d] = "sp_wait" /\ target[d] = target[c]

\* stop(), line 154: monitor_thread_->join(); returns once the thread has ended.
StopJoin(c) ==
    /\ pc[c] = "sp_wait" /\ ~crashed
    /\ ~JoinRace(c)
    /\ pc[target[c]] = "exited"
    /\ pc' = [pc EXCEPT ![c] = AfterStop(c), ![target[c]] = "none"]
    /\ monitor_thread' = NoThread
    /\ target' = [target EXCEPT ![c] = NoThread]
    /\ UNCHANGED <<Rest, running, check_requested, ai_threads_mutex, current_snapshot,
                   ai_threads, configured, published, copy, todo, held, ret, dtor, it,
                   destroyed, crashed, tasks, obs>>

\* The outcomes of the undefined join: the call fails (std::system_error leaves
\* stop() and nothing catches it), or it returns when the thread is gone.
StopJoinUB(c) ==
    /\ pc[c] = "sp_wait" /\ ~crashed
    /\ JoinRace(c)
    /\ \/ /\ crashed' = TRUE
          /\ UNCHANGED <<pc, target>>
       \/ /\ pc[target[c]] \in {"exited", "none"} \/ monitor_thread # target[c]
          /\ Goto(c, AfterStop(c))
          /\ target' = [target EXCEPT ![c] = NoThread]
          /\ UNCHANGED crashed
    /\ UNCHANGED <<Rest, running, check_requested, monitor_thread, ai_threads_mutex,
                   current_snapshot, ai_threads, configured, published, copy, todo,
                   held, ret, dtor, it, destroyed, tasks, obs>>

\* trigger_check(), line 179: check_requested_ = true; (and the call returns)
TriggerCheck(c) ==
    /\ CanCall(c)
    /\ check_requested' = TRUE
    /\ obs' = IF obs.on
              THEN [obs EXCEPT !.sinceWake = Sat(@), !.sinceClear = Sat(@),
                               !.owed = IF @ = 0 /\ running /\ monitor_thread # NoThread
                                        THEN 1 ELSE @]
              ELSE obs
    /\ UNCHANGED <<Rest, running, monitor_thread, ai_threads_mutex, current_snapshot,
                   ai_threads, configured, pc, published, copy, todo, held, ret,
                   target, dtor, it, destroyed, crashed, tasks>>

\* get_snapshot(), lines 165-166: under snapshot_mutex_, return current_snapshot_;
GetSnapshot(c) ==
    /\ CanCall(c)
    /\ ret' = [ret EXCEPT ![c] = current_snapshot]
    /\ Goto(c, "gs_done")
    /\ UNCHANGED <<Rest, running, check_requested, monitor_thread, ai_threads_mutex,
                   current_snapshot, ai_threads, configured, published, copy, todo,
                   held, target, dtor, it, destroyed, crashed, tasks, obs>>

\* The operation has returned; the caller drops what it got.
Return(c) ==
    /\ pc[c] \in DonePcs /\ ~crashed
    /\ Goto(c, "idle")
    /\ ret' = [ret EXCEPT ![c] = NoSnap]
    /\ published' = [published EXCEPT ![c] = FALSE]
    /\ UNCHANGED <<Rest, running, check_requested, monitor_thread, ai_threads_mutex,
                   current_snapshot, ai_threads, configured, copy, todo, held,
                   target, dtor, it, destroyed, crashed, tasks, obs>>

\* ------------------------------------------------------- monitor_loop
\* The loop of monitor_loop as `while (true)`.
LoopTest_forever(w) ==
    /\ pc[w] = "ml_test" /\ ~crashed
    /\ Goto(w, "ml_sleep")
    /\ UNCHANGED <<Rest, running, check_requested, monitor_thread, ai_threads_mutex,
                   current_snapshot, ai_threads, configured, published, copy, todo,
                   held, ret, target, dtor, it, destroyed, crashed, tasks, obs>>

\* monitor_loop, line 202: while (running_)
LoopTest(w) ==
    /\ pc[w] = "ml_test" /\ ~crashed
    /\ Goto(w, IF running THEN "ml_sleep" ELSE "exited")
    /\ UNCHANGED <<Rest, running, check_requested, monitor_thread, ai_threads_mutex,
                   current_snapshot, ai_threads, configured, published, copy, todo,
                   held, ret, target, dtor, it, destroyed, crashed, tasks, obs>>

\* The wake condition without `|| check_requested_`.
Wake_interval(w) ==
    /\ pc[w] = "ml_sleep" /\ ~crashed
    /\ \E elapsed \in BOOLEAN :
        /\ Goto(w, IF elapsed THEN "ml_clear" ELSE "ml_test")
        /\ obs' = IF obs.on
                  THEN [obs EXCEPT !.wokeWith = obs.sinceWake, !.sawFlag = check_requested,
                                   !.sawElapsed = elapsed,
                                   !.owed = IF @ = 0 THEN 0 ELSE Sat(@ - 1) + 1,
                                   !.stopWakes = IF running THEN @ ELSE Sat(@),
                                   !.sinceWake = 0, !.wakeChecks = 0, !.woke = TRUE]
                  ELSE obs
    /\ UNCHANGED <<Rest, running, check_requested, monitor_thread, ai_threads_mutex,
                   current_snapshot, ai_threads, configured, published, copy, todo,
                   held, ret, target, dtor, it, destroyed, crashed, tasks>>

\* monitor_loop, lines 204-211: the sleep ends (a polling wake) and the condition
\* elapsed.count() >= interval_secs || check_requested_ is evaluated.
Wake(w) ==
    /\ pc[w] = "ml_sleep" /\ ~crashed
    /\ \E elapsed \in BOOLEAN :
        /\ Goto(w, IF elapsed \/ check_requested THEN "ml_clear" ELSE "ml_test")
        /\ obs' = IF obs.on
                  THEN [obs EXCEPT !.wokeWith = obs.sinceWake, !.sawFlag = check_requested,
                                   !.sawElapsed = elapsed,
                                   !.owed = IF @ = 0 THEN 0 ELSE Sat(@ - 1) + 1,
                                   !.stopWakes = IF running THEN @ ELSE Sat(@),
                                   !.sinceWake = 0, !.wakeChecks = 0, !.woke = TRUE]
                  ELSE obs
    /\ UNCHANGED <<Rest, running, check_requested, monitor_thread, ai_threads_mutex,
                   current_snapshot, ai_threads, configured, published, copy, todo,
                   held, ret, target, dtor, it, destroyed, crashed, tasks>>

\* The loop body without `check_requested_ = false` (line 212).
ClearRequest_keep(w) ==
    /\ pc[w] = "ml_clear" /\ ~crashed
    /\ Goto(w, "rc_pub")
    /\ obs' = IF obs.on
              THEN [obs EXCEPT !.sinceClear = 0, !.wakeChecks = @ + 1, !.owed = 0,
                               !.stopChecks = IF running THEN @ ELSE Sat(@)]
              ELSE obs
    /\ UNCHANGED <<Rest, running, check_requested, monitor_thread, ai_threads_mutex,
                   current_snapshot, ai_threads, configured, published, copy, todo,
                   held, ret, target, dtor, it, destroyed, crashed, tasks>>

\* monitor_loop, lines 212-213: check_requested_ = false; run_checks();
ClearRequest(w) ==
    /\ pc[w] = "ml_clear" /\ ~crashed
    /\ check_requested' = FALSE
    /\ Goto(w, "rc_pub")
    /\ obs' = IF obs.on
              THEN [obs EXCEPT !.sinceClear = 0, !.wakeChecks = @ + 1, !.owed = 0,
                               !.stopChecks = IF running THEN @ ELSE Sat(@)]
              ELSE obs
    /\ UNCHANGED <<Rest, running, monitor_thread, ai_threads_mutex, current_snapshot,
                   ai_threads, configured, published, copy, todo, held, ret, target,
                   dtor, it, destroyed, crashed, tasks>>

\* --------------------------------------------------------- run_checks
\* Where the thread goes when run_checks() is over: force_check's read of the
\* snapshot, or the loop test of monitor_loop.
RcDone(t) == IF t \in Callers THEN "fc_read" ELSE "ml_test"

\* The locals of run_checks() when it is left.
CopyAt(t, l) == IF l \in CheckPcs THEN copy ELSE [copy EXCEPT ![t] = NoSnap]

PublishedAt(t, l) ==
    IF l \in CheckPcs \/ t \in Callers THEN published ELSE [published EXCEPT ![t] = FALSE]

\* run_checks, lines 226-311: the collectors are read and, under
\* snapshot_mutex_, current_snapshot_ is filled in; or a collector throws
\* (caught at line 327: the check ends, nothing is stored).
Publish(t) ==
    /\ \E due \in 0 .. MaxDue, throws \in BOOLEAN :
        IF throws
        THEN Goto(t, RcDone(t)) /\ UNCHANGED <<current_snapshot, published>>
        ELSE /\ Goto(t, "rc_copy")
             /\ current_snapshot' = [by |-> t, due |-> due]
             /\ published' = [published EXCEPT ![t] = TRUE]
    /\ UNCHANGED <<Rest, running, check_requested, monitor_thread, ai_threads_mutex,
                   ai_threads, configured, copy, todo, held, ret, target, dtor, it,
                   destroyed, crashed, tasks, obs>>

\* monitor_loop, lines 198 and 213: run_checks() on the monitor thread
RcPublish(w) == pc[w] = "rc_pub" /\ ~crashed /\ Publish(w)

\* force_check(), line 184: run_checks() on the calling thread
ForceCheck(c) == CanCall(c) /\ Publish(c)

\* The end of one create_smart_alert call inside check_thresholds: the next
\* threshold's call, or the end of run_checks.
AfterAlert(t, left) == IF left > 0 THEN "csa_create" ELSE RcDone(t)

\* run_checks, lines 315-320: under snapshot_mutex_ again, snapshot_copy =
\* current_snapshot_; then check_thresholds(snapshot_copy), lines 332-432: one
\* create_smart_alert call for every threshold the evaluated snapshot crosses.
RcCopy(t) ==
    /\ pc[t] = "rc_copy" /\ ~crashed
    /\ LET next == AfterAlert(t, current_snapshot.due) IN
        /\ Goto(t, next)
        /\ copy' = [copy EXCEPT ![t] = IF next \in CheckPcs THEN current_snapshot ELSE NoSnap]
        /\ published' = PublishedAt(t, next)
    /\ todo' = [todo EXCEPT ![t] = current_snapshot.due]
    /\ UNCHANGED <<Rest, running, check_requested, monitor_thread, ai_threads_mutex,
                   current_snapshot, ai_threads, configured, held, ret, target, dtor,
                   it, destroyed, crashed, tasks, obs>>

\* ------------------------------------------------- create_smart_alert
\* create_smart_alert without the alert_id.empty() test of line 495.
CsaCreate_anyid(t) ==
    /\ pc[t] = "csa_create" /\ ~crashed
    /\ \E created \in BOOLEAN :
        LET next == IF configured THEN "csa_spawn"
                    ELSE AfterAlert(t, todo[t] - 1) IN
        /\ Goto(t, next)
        /\ todo' = [todo EXCEPT ![t] = IF next = "csa_spawn" THEN @ ELSE @ - 1]
        /\ copy' = CopyAt(t, next)
        /\ published' = PublishedAt(t, next)
        /\ obs' = IF ~obs.detail THEN obs
                  ELSE LET c == [prim |-> IF created THEN "ok" ELSE "failed",
                                 spawned |-> 0] IN
                       IF next = "csa_spawn"
                       THEN [obs EXCEPT !.call[t] = c]
                       ELSE [obs EXCEPT !.call[t] = NoCall, !.last[t] = c]
    /\ UNCHANGED <<Rest, running, check_requested, monitor_thread, ai_threads_mutex,
                   current_snapshot, ai_threads, configured, held, ret, target, dtor,
                   it, destroyed, crashed, tasks>>

\* create_smart_alert, lines 492-497: the primary alert is created; no AI
\* analysis when the id is empty or the HTTP LLM client is not configured.
CsaCreate(t) ==
    /\ pc[t] = "csa_create" /\ ~crashed
    /\ \E created \in BOOLEAN :
        LET next == IF created /\ configured THEN "csa_spawn"
                    ELSE AfterAlert(t, todo[t] - 1) IN
        /\ Goto(t, next)
        /\ todo' = [todo EXCEPT ![t] = IF next = "csa_spawn" THEN @ ELSE @ - 1]
        /\ copy' = CopyAt(t, next)
        /\ published' = PublishedAt(t, next)
        /\ obs' = IF ~obs.detail THEN obs
                  ELSE LET c == [prim |-> IF created THEN "ok" ELSE "failed",
                                 spawned |-> 0] IN
                       IF next = "csa_spawn"
                       THEN [obs EXCEPT !.call[t] = c]
                       ELSE [obs EXCEPT !.call[t] = NoCall, !.last[t] = c]
    /\ UNCHANGED <<Rest, running, check_requested, monitor_thread, ai_threads_mutex,
                   current_snapshot, ai_threads, configured, held, ret, target, dtor,
                   it, destroyed, crashed, tasks>>

FreeTasks == {k \in Tasks : tasks[k].pc = "none"}

\* create_smart_alert, lines 511-581: std::thread ai_thread(...) starts the AI
\* analysis thread with a fresh done flag.
CsaSpawn(t) ==
    /\ pc[t] = "csa_spawn" /\ ~crashed
    /\ FreeTasks # {}
    /\ LET k == Min(FreeTasks) IN
        /\ tasks' = [tasks EXCEPT ![k] =
                        [NoTask EXCEPT !.pc = "start", !.lateSubmit = ~running,
                                       !.parent = IF obs.detail THEN todo[t] ELSE 0]]
        /\ held' = [held EXCEPT ![t] = k]
    /\ Goto(t, "csa_push")
    /\ obs' = IF obs.detail THEN [obs EXCEPT !.call[t].spawned = @ + 1] ELSE obs
    /\ UNCHANGED <<Rest, running, check_requested, monitor_thread, ai_threads_mutex,
                   current_snapshot, ai_threads, configured, published, copy, todo,
                   ret, target, dtor, it, destroyed, crashed>>

\* cleanupFinishedAIThreads, lines 111-131: the entries whose done flag is set
\* are joined and erased, the others stay.  (An entry is joinable until it is
\* joined here or in the destructor, so line 124 never applies.)
Finished(list) == {list[i] : i \in {j \in 1 .. Len(list) : tasks[list[j]].done}}

Swept(list) == SelectSeq(list, LAMBDA k : ~tasks[k].done)

\* The sweep erasing every entry, finished or not, without joining the
\* unfinished ones.
CsaPush_dropall(t) ==
    /\ pc[t] = "csa_push" /\ ~crashed
    /\ ai_threads_mutex = NoThread
    /\ \A k \in Finished(ai_threads) : tasks[k].pc = "exited"
    /\ ai_threads' = <<held[t]>>
    /\ tasks' = [k \in Tasks |-> IF k \in Finished(ai_threads) THEN NoTask ELSE tasks[k]]
    /\ held' = [held EXCEPT ![t] = 0]
    /\ todo' = [todo EXCEPT ![t] = @ - 1]
    /\ LET next == AfterAlert(t, todo[t] - 1) IN
        /\ Goto(t, next)
        /\ copy' = CopyAt(t, next)
        /\ published' = PublishedAt(t, next)
    /\ obs' = IF obs.detail
              THEN [obs EXCEPT !.call[t] = NoCall, !.last[t] = obs.call[t]]
              ELSE obs
    /\ UNCHANGED <<Rest, running, check_requested, monitor_thread, ai_threads_mutex,
                   current_snapshot, configured, ret, target, dtor, it, destroyed,
                   crashed>>

\* create_smart_alert adding the new thread without the sweep of line 586.
CsaPush_nosweep(t) ==
    /\ pc[t] = "csa_push" /\ ~crashed
    /\ ai_threads_mutex = NoThread
    /\ ai_threads' = Append(ai_threads, held[t])
    /\ held' = [held EXCEPT ![t] = 0]
    /\ todo' = [todo EXCEPT ![t] = @ - 1]
    /\ LET next == AfterAlert(t, todo[t] - 1) IN
        /\ Goto(t, next)
        /\ copy' = CopyAt(t, next)
        /\ published' = PublishedAt(t, next)
    /\ obs' = IF obs.detail
              THEN [obs EXCEPT !.call[t] = NoCall, !.last[t] = obs.call[t]]
              ELSE obs
    /\ UNCHANGED <<Rest, running, check_requested, monitor_thread, ai_threads_mutex,
                   current_snapshot, configured, ret, target, dtor, it, destroyed,
                   crashed, tasks>>

\* create_smart_alert, lines 584-590: under ai_threads_mutex_, the sweep, then
\* push_back of the new thread.  join() of a finished entry returns once its
\* thread has ended.
CsaPush(t) ==
    /\ pc[t] = "csa_push" /\ ~crashed
    /\ ai_threads_mutex = NoThread
    /\ \A k \in Finished(ai_threads) : tasks[k].pc = "exited"
    /\ ai_threads' = Append(Swept(ai_threads), held[t])
    /\ tasks' = [k \in Tasks |-> IF k \in Finished(ai_threads) THEN NoTask ELSE tasks[k]]
    /\ held' = [held EXCEPT ![t] = 0]
    /\ todo' = [todo EXCEPT ![t] = @ - 1]
    /\ LET next == AfterAlert(t, todo[t] - 1) IN
        /\ Goto(t, next)
        /\ copy' = CopyAt(t, next)
        /\ published' = PublishedAt(t, next)
    /\ obs' = IF obs.detail
              THEN [obs EXCEPT !.call[t] = NoCall, !.last[t] = obs.call[t]]
              ELSE obs
    /\ UNCHANGED <<Rest, running, check_requested, monitor_thread, ai_threads_mutex,
                   current_snapshot, configured, ret, target, dtor, it, destroyed,
                   crashed>>

\* force_check() returning std::move(current_snapshot_).
FcRead_move(c) ==
    /\ pc[c] = "fc_read" /\ ~crashed
    /\ ret' = [ret EXCEPT ![c] = current_snapshot]
    /\ current_snapshot' = NoSnap
    /\ Goto(c, "fc_done")
    /\ UNCHANGED <<Rest, running, check_requested, monitor_thread, ai_threads_mutex,
                   ai_threads, configured, published, copy, todo, held, target, dtor,
                   it, destroyed, crashed, tasks, obs>>

\* force_check(), lines 186-187: under snapshot_mutex_, return current_snapshot_;
FcRead(c) ==
    /\ pc[c] = "fc_read" /\ ~crashed
    /\ ret' = [ret EXCEPT ![c] = current_snapshot]
    /\ Goto(c, "fc_done")
    /\ UNCHANGED <<Rest, running, check_requested, monitor_thread, ai_threads_mutex,
                   current_snapshot, ai_threads, configured, published, copy, todo,
                   held, target, dtor, it, destroyed, crashed, tasks, obs>>

\* ------------------------------------------------ AI analysis threads
NotTasks == <<Rest, running, check_requested, monitor_thread, ai_threads_mutex,
              current_snapshot, ai_threads, configured, pc, published, copy, todo,
              held, ret, target, dtor, it, destroyed, crashed, obs>>

\* The thread lambda without the test of line 526.
TaskCheckRunning_skip(k) ==
    /\ tasks[k].pc = "start" /\ ~crashed
    /\ tasks' = [tasks EXCEPT ![k].pc = "resolve"]
    /\ UNCHANGED NotTasks

\* thread lambda, line 526: if (!running_ptr->load()) return;
TaskCheckRunning(k) ==
    /\ tasks[k].pc = "start" /\ ~crashed
    /\ tasks' = [tasks EXCEPT ![k] = IF running
                                     THEN [@ EXCEPT !.pc = "resolve"]
                                     ELSE [@ EXCEPT !.pc = "guard", !.cancelled = TRUE]]
    /\ UNCHANGED NotTasks

\* The lambda using a raw AlertManager pointer instead of weak_alert_mgr.lock().
TaskResolve_raw(k) ==
    /\ tasks[k].pc = "resolve" /\ ~crashed
    /\ tasks' = [tasks EXCEPT ![k].pc = "generate"]
    /\ UNCHANGED NotTasks

\* thread lambda, lines 533-537: weak_alert_mgr.lock(); the SystemMonitor holds
\* a shared_ptr to the AlertManager until its members are released.
TaskResolve(k) ==
    /\ tasks[k].pc = "resolve" /\ ~crashed
    /\ \E alive \in (IF destroyed THEN BOOLEAN ELSE {TRUE}) :
        tasks' = [tasks EXCEPT ![k].pc = IF alive THEN "generate" ELSE "guard",
                               ![k].strong = alive]
    /\ UNCHANGED NotTasks

\* The done flag stored at the end of the try block instead of by ~DoneGuard: an
\* exception leaves the lambda without it.
TaskGenerate_noguard(k) ==
    /\ tasks[k].pc = "generate" /\ ~crashed
    /\ \E outcome \in {"text", "empty", "throw"} :
        tasks' = [tasks EXCEPT ![k].backend = TRUE,
                               ![k].pc = IF outcome = "throw" THEN "ending" ELSE "create",
                               ![k].threw = (outcome = "throw"),
                               ![k].strong = (outcome # "throw"),
                               ![k].analysis = IF obs.detail /\ outcome # "throw"
                                               THEN outcome ELSE "none"]
    /\ UNCHANGED NotTasks

\* thread lambda, line 540: self->generate_ai_alert(type, ai_context) returns
\* text, returns "" or throws (caught at lines 576-580, no secondary alert).
TaskGenerate(k) ==
    /\ tasks[k].pc = "generate" /\ ~crashed
    /\ \E outcome \in {"text", "empty", "throw"} :
        tasks' = [tasks EXCEPT ![k].backend = TRUE,
                               ![k].pc = IF outcome = "throw" THEN "guard" ELSE "create",
                               ![k].threw = (outcome = "throw"),
                               ![k].strong = (outcome # "throw"),
                               ![k].analysis = IF obs.detail /\ outcome # "throw"
                                               THEN outcome ELSE "none"]
    /\ UNCHANGED NotTasks

\* thread lambda, lines 542-568: the message is built from ai_analysis (the
\* analysis when it is not empty, else the context and "AI analysis unavailable
\* or returned empty"), and alert_mgr->create(INFO, AI_ANALYSIS, ...) is called
\* with parent_alert_id = alert_id; alert_mgr is released when the try block is
\* left.
TaskCreate(k) ==
    /\ tasks[k].pc = "create" /\ ~crashed
    /\ tasks' = [tasks EXCEPT ![k].secondary = @ + 1, ![k].pc = "guard",
                              ![k].strong = FALSE,
                              ![k].message = IF ~obs.detail THEN "none"
                                             ELSE IF tasks[k].analysis = "text"
                                                  THEN "analysis" ELSE "unavailable",
                              ![k].ref = tasks[k].parent]
    /\ UNCHANGED NotTasks

\* thread lambda, lines 517-520: ~DoneGuard stores true to the done flag when
\* the lambda is left, by whichever path.
TaskDone(k) ==
    /\ tasks[k].pc = "guard" /\ ~crashed
    /\ tasks' = [tasks EXCEPT ![k].done = TRUE, ![k].pc = "ending"]
    /\ UNCHANGED NotTasks

\* The thread function has returned: the thread ends and join() can return.
TaskExit(k) ==
    /\ tasks[k].pc = "ending" /\ ~crashed
    /\ tasks' = [tasks EXCEPT ![k].pc = "exited"]
    /\ UNCHANGED NotTasks

\* A step of AI analysis thread k.
TaskStep(k) ==
    \/ TaskCheckRunning(k) \/ TaskResolve(k) \/ TaskGenerate(k) \/ TaskCreate(k)
    \/ TaskDone(k) \/ TaskExit(k)

\* ----------------------------------------------------- ~SystemMonitor
\* The destructor is entered by one thread, when no other thread is inside a
\* member function; line 99: stop();
Destroy(c) ==
    /\ CanCall(c)
    /\ \A d \in Callers : pc[d] = "idle"
    /\ dtor' = c
    /\ Goto(c, "sp_test")
    /\ UNCHANGED <<Rest, running, check_requested, monitor_thread, ai_threads_mutex,
                   current_snapshot, ai_threads, configured, published, copy, todo,
                   held, ret, target, it, destroyed, crashed, tasks, obs>>

\* ~SystemMonitor, line 102: std::lock_guard lock(ai_threads_mutex_);
DtorLock(c) ==
    /\ pc[c] = "d_lock" /\ ~crashed
    /\ ai_threads_mutex = NoThread
    /\ ai_threads_mutex' = c
    /\ it' = 1
    /\ Goto(c, "d_join")
    /\ UNCHANGED <<Rest, running, check_requested, monitor_thread, current_snapshot,
                   ai_threads, configured, published, copy, todo, held, ret, target,
                   dtor, destroyed, crashed, tasks, obs>>

\* The destructor detaching the entry instead of joining it.
DtorJoin_detach(c) ==
    /\ pc[c] = "d_join" /\ ~crashed
    /\ it <= Len(ai_threads)
    /\ tasks' = [tasks EXCEPT ![ai_threads[it]] =
                     IF @.pc = "exited" THEN NoTask ELSE @]
    /\ it' = it + 1
    /\ UNCHANGED <<Rest, running, check_requested, monitor_thread, ai_threads_mutex,
                   current_snapshot, ai_threads, configured, pc, published, copy,
                   todo, held, ret, target, dtor, destroyed, crashed, obs>>

\* ~SystemMonitor, lines 103-107: entry.thread.join() for the next entry; it
\* returns once that thread has ended.
DtorJoin(c) ==
    /\ pc[c] = "d_join" /\ ~crashed
    /\ it <= Len(ai_threads)
    /\ tasks[ai_threads[it]].pc = "exited"
    /\ tasks' = [tasks EXCEPT ![ai_threads[it]] = NoTask]
    /\ it' = it + 1
    /\ UNCHANGED <<Rest, running, check_requested, monitor_thread, ai_threads_mutex,
                   current_snapshot, ai_threads, configured, pc, published, copy,
                   todo, held, ret, target, dtor, destroyed, crashed, obs>>

\* ~SystemMonitor, lines 108-109: ai_threads_.clear(); the lock is released and
\* the members (LLM client, AlertManager reference) are destroyed.
DtorClear(c) ==
    /\ pc[c] = "d_join" /\ ~crashed
    /\ it > Len(ai_threads)
    /\ ai_threads' = <<>>
    /\ ai_threads_mutex' = NoThread
    /\ destroyed' = TRUE
    /\ Goto(c, "d_done")
    /\ UNCHANGED <<Rest, running, check_requested, monitor_thread, current_snapshot,
                   configured, published, copy, todo, held, ret, target, dtor, it,
                   crashed, tasks, obs>>

\* ------------------------------------------------- run_checks: collectors
\* The kernel advances one of its counters.
Tick ==
    /\ total(proc_stat) < MaxJiffies
    /\ \E f \in {"used", "idle"} : proc_stat' = [proc_stat EXCEPT ![f] = @ + 1]
    /\ UNCHANGED <<NotCollect, prev_cpu_counters, cpu_counters_initialized, cpu_mutex,
                   apt_counter, metrics, chk>>

\* The kernel lowers iowait: the field is not monotonic (proc(5): "the value
\* of iowait field in /proc/stat will decrease in certain conditions").
TickBack ==
    /\ proc_stat.idle > 0
    /\ proc_stat' = [proc_stat EXCEPT !.idle = @ - 1]
    /\ UNCHANGED <<NotCollect, prev_cpu_counters, cpu_counters_initialized, cpu_mutex,
                   apt_counter, metrics, chk>>

\* read_cpu_counters(), lines 234-246: the counters of the first line, or the
\* default (all zero) counters when /proc/stat cannot be opened
ReadCpuCounters == {proc_stat, ZeroCounters}

\* run_checks() is entered (line 221); cpu_usage starts at 0.0 (line 232)
RcBegin(t) ==
    /\ chk[t].pc = "idle"
    /\ chk' = [chk EXCEPT ![t] = [NoCheck EXCEPT !.pc = "mem"]]
    /\ UNCHANGED <<NotCollect, proc_stat, prev_cpu_counters, cpu_counters_initialized,
                   cpu_mutex, apt_counter, metrics>>

\* line 226: memory_monitor_->get_stats() returns, or throws into the catch of
\* line 327, which ends the check with nothing stored
RcMemory(t) ==
    /\ chk[t].pc = "mem"
    /\ \/ \E m \in Levels : chk' = [chk EXCEPT ![t].mem = m, ![t].pc = "disk"]
       \/ chk' = [chk EXCEPT ![t] = [NoCheck EXCEPT !.failed = "memory"]]
    /\ UNCHANGED <<NotCollect, proc_stat, prev_cpu_counters, cpu_counters_initialized,
                   cpu_mutex, apt_counter, metrics>>

\* line 229: disk_monitor_->get_root_stats(), likewise
RcDisk(t) ==
    /\ chk[t].pc = "disk"
    /\ \/ \E d \in Levels : chk' = [chk EXCEPT ![t].disk = d, ![t].pc = "cpu_read"]
       \/ chk' = [chk EXCEPT ![t] = [NoCheck EXCEPT !.failed = "disk"]]
    /\ UNCHANGED <<NotCollect, proc_stat, prev_cpu_counters, cpu_counters_initialized,
                   cpu_mutex, apt_counter, metrics>>

\* line 248: the first sample, taken before cpu_mutex_; an exception leaves the
\* inner try block for the catch of line 272 with cpu_usage still 0.0
RcReadCpu(t) ==
    /\ chk[t].pc = "cpu_read"
    /\ \/ \E c \in ReadCpuCounters :
            chk' = [chk EXCEPT ![t].current = c, ![t].cpuFailed = (c = ZeroCounters),
                               ![t].pc = "cpu_lock"]
       \/ chk' = [chk EXCEPT ![t].cpuFailed = TRUE, ![t].pc = "apt"]
    /\ UNCHANGED <<NotCollect, proc_stat, prev_cpu_counters, cpu_counters_initialized,
                   cpu_mutex, apt_counter, metrics>>

\* lines 251-257: take cpu_mutex_; on the first run the sample becomes the
\* previous one and a second sample follows
RcCpuLock(t) ==
    /\ chk[t].pc = "cpu_lock"
    /\ cpu_mutex = NoThread
    /\ cpu_mutex' = t
    /\ IF cpu_counters_initialized
          THEN /\ chk' = [chk EXCEPT ![t].pc = "cpu_delta"]
               /\ UNCHANGED prev_cpu_counters
          ELSE /\ chk' = [chk EXCEPT ![t].pc = "cpu_resample"]
               /\ prev_cpu_counters' = chk[t].current
    /\ UNCHANGED <<NotCollect, proc_stat, cpu_counters_initialized, apt_counter, metrics>>

\* lines 258-259: the second sample of the first run
RcResample(t) ==
    /\ chk[t].pc = "cpu_resample"
    /\ \E c \in ReadCpuCounters :
          chk' = [chk EXCEPT ![t].current = c,
                             ![t].cpuFailed = (c = ZeroCounters),
                             ![t].pc = "cpu_delta"]
    /\ cpu_counters_initialized' = TRUE
    /\ UNCHANGED <<NotCollect, proc_stat, prev_cpu_counters, cpu_mutex, apt_counter,
                   metrics>>

\* lines 263-268: the percentage of the difference to the previous sample,
\* computed only when the total advanced
CpuUsage(current, prev) ==
    LET delta_total == total(current) - total(prev)
        delta_used == used(current) - used(prev)
    IN  IF delta_total > 0 THEN (delta_used * 100) \div delta_total ELSE 0

\* lines 263-271: compute, remember the sample, leave the section
RcCpuDelta(t) ==
    /\ chk[t].pc = "cpu_delta"
    /\ chk' = [chk EXCEPT ![t].cpu_usage = CpuUsage(chk[t].current, prev_cpu_counters),
                          ![t].pc = "apt"]
    /\ prev_cpu_counters' = chk[t].current
    /\ cpu_mutex' = NoThread
    /\ UNCHANGED <<NotCollect, proc_stat, cpu_counters_initialized, apt_counter, metrics>>

\* lines 277-290: with the package monitor enabled, count the check and run
\* check_updates() on every fifth; it may throw into the catch of line 327
RcApt(t) ==
    /\ chk[t].pc = "apt"
    /\ \/ /\ chk' = [chk EXCEPT ![t].pending = 0, ![t].pc = "store"]
          /\ UNCHANGED apt_counter
       \/ /\ apt_counter' = (apt_counter + 1) % AptEvery
          /\ \/ \E p \in Pending : chk' = [chk EXCEPT ![t].pending = p, ![t].pc = "store"]
             \/ /\ apt_counter % AptEvery = 0
                /\ chk' = [chk EXCEPT ![t] = [NoCheck EXCEPT !.failed = "apt"]]
    /\ UNCHANGED <<NotCollect, proc_stat, prev_cpu_counters, cpu_counters_initialized,
                   cpu_mutex, metrics>>

\* lines 293-304: the fields are stored under snapshot_mutex_
RcStore(t) ==
    /\ chk[t].pc = "store"
    /\ metrics' = [cpu |-> chk[t].cpu_usage, mem |-> chk[t].mem, disk |-> chk[t].disk,
                   pending |-> chk[t].pending]
    /\ chk' = [chk EXCEPT ![t] = NoCheck]
    /\ UNCHANGED <<NotCollect, proc_stat, prev_cpu_counters, cpu_counters_initialized,
                   cpu_mutex, apt_counter>>

\* ------------------------------------------------------------ RateLimiter
\* Time passes.
ClockTick ==
    /\ now + ClockStep <= MaxClock
    /\ now' = now + ClockStep
    /\ UNCHANGED <<NotLimiter, limiter, req, lobs>>

\* allow() is called and waits for the mutex
AllowCall(c) ==
    /\ req[c].pc = "idle"
    /\ lobs.calls < MaxCalls
    /\ req' = [req EXCEPT ![c] = [NoReq EXCEPT !.pc = "a_lock"]]
    /\ lobs' = [lobs EXCEPT !.calls = @ + 1]
    /\ UNCHANGED <<NotLimiter, now, limiter>>

\* allow() without mutual exclusion.
AllowLock_nomutex(c) ==
    /\ req[c].pc = "a_lock"
    /\ limiter' = [limiter EXCEPT !.mutex = c]
    /\ req' = [req EXCEPT ![c].pc = "a_eval"]
    /\ UNCHANGED <<NotLimiter, now, lobs>>

\* the critical section of allow() is entered
AllowLock(c) ==
    /\ req[c].pc = "a_lock"
    /\ limiter.mutex = NoThread
    /\ limiter' = [limiter EXCEPT !.mutex = c]
    /\ req' = [req EXCEPT ![c].pc = "a_eval"]
    /\ UNCHANGED <<NotLimiter, now, lobs>>

\* the window as the clock defines it for a call evaluated at time t
WindowAt(t) ==
    IF t - lobs.start >= WindowSize
      THEN [lobs EXCEPT !.start = t, !.kind = "rolled", !.epoch = @ + 1, !.seen = 0,
                        !.admitted = 0]
      ELSE lobs

\* allow() admitting while the counter has not passed limit.
AllowEval_offbyone(c) ==
    /\ req[c].pc = "a_eval"
    /\ LET elapsed == now - limiter.window_start
           rollover == elapsed >= WindowSize
           count == IF rollover THEN 0 ELSE limiter.count
           w == WindowAt(now)
       IN  /\ limiter' = [limiter EXCEPT !.count = count,
                                         !.window_start = IF rollover THEN now ELSE @]
           /\ req' = [req EXCEPT ![c].pc = "a_admit", ![c].t = now,
                                 ![c].verdict = (count <= Limit),
                                 ![c].rank = w.seen + 1, ![c].kind = w.kind,
                                 ![c].rolled = (w.start # lobs.start)]
           /\ lobs' = [w EXCEPT !.seen = @ + 1,
                                !.admitted = IF count <= Limit THEN @ + 1 ELSE @]
    /\ UNCHANGED <<NotLimiter, now>>

\* allow() testing the call against the expired window, then rolling over.
AllowEval_late(c) ==
    /\ req[c].pc = "a_eval"
    /\ LET elapsed == now - limiter.window_start
           rollover == elapsed >= WindowSize
           count == limiter.count
           w == WindowAt(now)
       IN  /\ limiter' = [limiter EXCEPT !.count = IF rollover THEN 0 ELSE @,
                                         !.window_start = IF rollover THEN now ELSE @]
           /\ req' = [req EXCEPT ![c].pc = "a_admit", ![c].t = now,
                                 ![c].verdict = (count < Limit),
                                 ![c].rank = w.seen + 1, ![c].kind = w.kind,
                                 ![c].rolled = (w.start # lobs.start)]
           /\ lobs' = [w EXCEPT !.seen = @ + 1,
                                !.admitted = IF count < Limit THEN @ + 1 ELSE @]
    /\ UNCHANGED <<NotLimiter, now>>

\* allow(): a window that has fully elapsed is replaced by a new one that
\* starts now, with the counter reset; then the call is tested against limit
AllowEval(c) ==
    /\ req[c].pc = "a_eval"
    /\ LET elapsed == now - limiter.window_start
           rollover == elapsed >= WindowSize
           count == IF rollover THEN 0 ELSE limiter.count
           w == WindowAt(now)
       IN  /\ limiter' = [limiter EXCEPT !.count = count,
                                         !.window_start = IF rollover THEN now ELSE @]
           /\ req' = [req EXCEPT ![c].pc = "a_admit", ![c].t = now,
                                 ![c].verdict = (count < Limit),
                                 ![c].rank = w.seen + 1, ![c].kind = w.kind,
                                 ![c].rolled = (w.start # lobs.start)]
           /\ lobs' = [w EXCEPT !.seen = @ + 1,
                                !.admitted = IF count < Limit THEN @ + 1 ELSE @]
    /\ UNCHANGED <<NotLimiter, now>>

\* allow(): an admitted call is counted; the critical section ends
AllowAdmit(c) ==
    /\ req[c].pc = "a_admit"
    /\ limiter' = [limiter EXCEPT !.count = IF req[c].verdict THEN @ + 1 ELSE @,
                                  !.mutex = IF @ = c THEN NoThread ELSE @]
    /\ req' = [req EXCEPT ![c].pc = "a_ret"]
    /\ UNCHANGED <<NotLimiter, now, lobs>>

\* allow() has returned its verdict; the client goes on
AllowReturn(c) ==
    /\ req[c].pc = "a_ret"
    /\ req' = [req EXCEPT ![c] = NoReq]
    /\ UNCHANGED <<NotLimiter, now, limiter, lobs>>

\* reset() is called and waits for the mutex
ResetCall(c) ==
    /\ req[c].pc = "idle"
    /\ lobs.resets < MaxResets
    /\ req' = [req EXCEPT ![c] = [NoReq EXCEPT !.pc = "r_lock"]]
    /\ lobs' = [lobs EXCEPT !.resets = @ + 1]
    /\ UNCHANGED <<NotLimiter, now, limiter>>

\* reset() that restarts the window and keeps the counter.
ResetClear_keep(c) ==
    /\ req[c].pc = "r_lock"
    /\ limiter.mutex = NoThread
    /\ limiter' = [limiter EXCEPT !.window_start = now]
    /\ req' = [req EXCEPT ![c] = NoReq]
    /\ lobs' = [lobs EXCEPT !.start = now, !.kind = "reset", !.epoch = @ + 1, !.seen = 0,
                            !.admitted = 0]
    /\ UNCHANGED <<NotLimiter, now>>

\* reset(): under the mutex the counter is cleared and a new window starts
ResetClear(c) ==
    /\ req[c].pc = "r_lock"
    /\ limiter.mutex = NoThread
    /\ limiter' = [limiter EXCEPT !.count = 0, !.window_start = now]
    /\ req' = [req EXCEPT ![c] = NoReq]
    /\ lobs' = [lobs EXCEPT !.start = now, !.kind = "reset", !.epoch = @ + 1, !.seen = 0,
                            !.admitted = 0]
    /\ UNCHANGED <<NotLimiter, now>>

\* ------------------------------------------------------------ dispatcher
\* a connection is accepted and handed to its thread
ConnAccept(c) ==
    /\ conn[c].st \in {"None", "Closed"}
    /\ req[c].pc = "idle"
    /\ lobs.calls < MaxCalls
    /\ conn' = [conn EXCEPT ![c] = [NoConn EXCEPT !.st = "Reading"]]
    /\ UNCHANGED <<NotDispatch, LimiterVars>>

\* one message is read and the rate limiter is consulted (allow() is called);
\* a client that sent nothing is disconnected
ConnRead(c) ==
    /\ conn[c].st = "Reading"
    /\ \/ /\ \E m \in Messages :
                conn' = [conn EXCEPT ![c].msg = m, ![c].st = "RateLimitCheck"]
          /\ req' = [req EXCEPT ![c] = [NoReq EXCEPT !.pc = "a_lock"]]
          /\ lobs' = [lobs EXCEPT !.calls = @ + 1]
       \/ /\ conn' = [conn EXCEPT ![c].st = "Closed"]
          /\ UNCHANGED <<req, lobs>>
    /\ UNCHANGED <<NotDispatch, now, limiter>>

\* the dispatcher parsing every request, whatever allow() returned.
ConnAdmission_ignore(c) ==
    /\ conn[c].st = "RateLimitCheck"
    /\ req[c].pc = "a_ret"
    /\ conn' = [conn EXCEPT ![c].admitted = IF req[c].verdict THEN "yes" ELSE "no",
                            ![c].rank = req[c].rank,
                            ![c].st = "Parsing"]
    /\ req' = [req EXCEPT ![c] = NoReq]
    /\ UNCHANGED <<NotDispatch, now, limiter, lobs>>

\* allow() has returned: a rejected request is answered RATE_LIMITED, an
\* admitted one goes on to the parser
ConnAdmission(c) ==
    /\ conn[c].st = "RateLimitCheck"
    /\ req[c].pc = "a_ret"
    /\ conn' = [conn EXCEPT ![c].admitted = IF req[c].verdict THEN "yes" ELSE "no",
                            ![c].rank = req[c].rank,
                            ![c].st = IF req[c].verdict THEN "Parsing" ELSE "Responding",
                            ![c].response = IF req[c].verdict THEN @ ELSE "RATE_LIMITED"]
    /\ req' = [req EXCEPT ![c] = NoReq]
    /\ UNCHANGED <<NotDispatch, now, limiter, lobs>>

\* the message is parsed; what is not a request is answered PARSE_ERROR
ConnParse(c) ==
    /\ conn[c].st = "Parsing"
    /\ LET request == RequestParse(conn[c].msg)
       IN  conn' = [conn EXCEPT ![c].parsed = TRUE,
                                ![c].method = request.method,
                                ![c].st = IF request.has THEN "Dispatching" ELSE "Responding",
                                ![c].response = IF request.has THEN @ ELSE "PARSE_ERROR"]
    /\ UNCHANGED <<NotDispatch, LimiterVars>>

\* the dispatcher answering a request for an unknown method with success.
ConnDispatch_default(c) ==
    /\ conn[c].st = "Dispatching"
    /\ handlers_mutex = NoThread
    /\ LET h == handlers[conn[c].method]
       IN  conn' = [conn EXCEPT ![c].looked = TRUE, ![c].handler = h,
                                ![c].st = IF h = 0 THEN "Responding" ELSE "Invoking",
                                ![c].response = IF h = 0 THEN "ok" ELSE @]
    /\ UNCHANGED <<NotDispatch, LimiterVars>>

\* the handler is looked up under the registry's mutex: absent, the request
\* is answered METHOD_NOT_FOUND; else the handler found is the one to invoke
ConnDispatch(c) ==
    /\ conn[c].st = "Dispatching"
    /\ handlers_mutex = NoThread
    /\ LET h == handlers[conn[c].method]
       IN  conn' = [conn EXCEPT ![c].looked = TRUE, ![c].handler = h,
                                ![c].st = IF h = 0 THEN "Responding" ELSE "Invoking",
                                ![c].response = IF h = 0 THEN "METHOD_NOT_FOUND" ELSE @]
    /\ UNCHANGED <<NotDispatch, LimiterVars>>

\* the handler found is invoked, outside the mutex: it returns its response,
\* or throws, which gives INTERNAL_ERROR
ConnInvoke(c) ==
    /\ conn[c].st = "Invoking"
    /\ \/ conn' = [conn EXCEPT ![c].invoked = TRUE, ![c].st = "Responding",
                                ![c].response = "ok",
                                ![c].result = HandlerResult(conn[c].handler)]
       \/ conn' = [conn EXCEPT ![c].invoked = TRUE, ![c].st = "Responding",
                                ![c].response = "INTERNAL_ERROR"]
    /\ UNCHANGED <<NotDispatch, LimiterVars>>

\* ------------------------------------------------------------ check_thresholds
\* check_thresholds(snapshot), lines 332-337: without an alert manager it
\* returns at once; else the configuration is read
TeBegin ==
    /\ te.pc \in {"idle", "done"}
    /\ \E am \in BOOLEAN, d \in Percentages, m \in Percentages, u \in Pending,
          cfg \in Configs :
         te' = [pc |-> IF am THEN "disk" ELSE "done", alert_manager |-> am, disk |-> d,
                memory |-> m, security_updates |-> u, config |-> cfg, emitted |-> <<>>]
    /\ UNCHANGED <<NotEval>>

\* the disk check with two independent tests.
TeDisk_both ==
    /\ te.pc = "disk"
    /\ LET crit == IF te.disk >= te.config.disk_crit
                      THEN <<AlertRequest("CRITICAL", "DISK_USAGE")>> ELSE <<>>
           warn == IF te.disk >= te.config.disk_warn
                      THEN <<AlertRequest("WARNING", "DISK_USAGE")>> ELSE <<>>
       IN  te' = [te EXCEPT !.pc = "memory", !.emitted = @ \o crit \o warn]
    /\ UNCHANGED <<NotEval>>

\* lines 340-370: disk usage against the critical threshold, else against
\* the warning threshold
TeDisk ==
    /\ te.pc = "disk"
    /\ te' = [te EXCEPT !.pc = "memory",
                        !.emitted =
                           IF te.disk >= te.config.disk_crit
                              THEN Append(@, AlertRequest("CRITICAL", "DISK_USAGE"))
                           ELSE IF te.disk >= te.config.disk_warn
                              THEN Append(@, AlertRequest("WARNING", "DISK_USAGE"))
                           ELSE @]
    /\ UNCHANGED <<NotEval>>

\* lines 373-402: the same for memory usage
TeMemory ==
    /\ te.pc = "memory"
    /\ te' = [te EXCEPT !.pc = "updates",
                        !.emitted =
                           IF te.memory >= te.config.mem_crit
                              THEN Append(@, AlertRequest("CRITICAL", "MEMORY_USAGE"))
                           ELSE IF te.memory >= te.config.mem_warn
                              THEN Append(@, AlertRequest("WARNING", "MEMORY_USAGE"))
                           ELSE @]
    /\ UNCHANGED <<NotEval>>

\* lines 405-431: a warning when security updates are pending
TeUpdates ==
    /\ te.pc = "updates"
    /\ te' = [te EXCEPT !.pc = "done",
                        !.emitted = IF te.security_updates > 0
                                       THEN Append(@, AlertRequest("WARNING", "SECURITY_UPDATE"))
                                       ELSE @]
    /\ UNCHANGED <<NotEval>>

\* ------------------------------------------------------------ Response
\* Response::ok(result), protocol.cpp:75-80
ResponseOk ==
    /\ \E r \in Results :
         resp' = [DefaultResponse EXCEPT !.success = TRUE, !.result = r]
    /\ UNCHANGED <<NotWire, LimiterVars, wire>>

\* Response::err(message, code), protocol.cpp:82-88
ResponseErr ==
    /\ \E m \in ErrorMessages, code \in ErrorCodes :
         resp' = [DefaultResponse EXCEPT !.success = FALSE, !.error = m, !.error_code = code]
    /\ UNCHANGED <<NotWire, LimiterVars, wire>>

\* Response::to_json(), protocol.cpp:58-73, with the time of the call in seconds
ResponseToJson ==
    /\ resp # DefaultResponse
    /\ LET j == ToJson(resp, now \div MsPerSecond)
       IN  wire' = IF DumpThrows(j) THEN [wire EXCEPT !.threw = TRUE]
                                   ELSE [out |-> <<j>>, of |-> resp, threw |-> FALSE]
    /\ UNCHANGED <<NotWire, LimiterVars, resp>>

\* ------------------------------------------------------------ register_handler
\* register_handler(method, fn) is called with a handler of its own
RegCall(g) ==
    /\ reg[g].pc = "idle"
    /\ hobs.calls < MaxRegs
    /\ \E m \in Methods :
         LET h == hobs.calls + 2
         IN  /\ reg' = [reg EXCEPT ![g] = [pc |-> "lock", method |-> m, handler |-> h]]
             /\ hobs' = [hobs EXCEPT !.calls = @ + 1, !.of[h] = m,
                                     !.prior[h] = {k \in hobs.returned : hobs.of[k] = m}]
    /\ UNCHANGED <<NotRegistry, handlers, handlers_mutex>>

\* the registry's mutex is taken
RegLock(g) ==
    /\ reg[g].pc = "lock"
    /\ handlers_mutex = NoThread
    /\ handlers_mutex' = g
    /\ reg' = [reg EXCEPT ![g].pc = "store"]
    /\ UNCHANGED <<NotRegistry, handlers, hobs>>

\* register_handler keeping the handler a method already has.
RegStore_keep(g) ==
    /\ reg[g].pc = "store"
    /\ handlers' = IF handlers[reg[g].method] = 0
                      THEN [handlers EXCEPT ![reg[g].method] = reg[g].handler]
                      ELSE handlers
    /\ handlers_mutex' = NoThread
    /\ reg' = [reg EXCEPT ![g].pc = "ret"]
    /\ UNCHANGED <<NotRegistry, hobs>>

\* the handler is stored under the method's name, replacing the one that
\* was there, and the mutex released
RegStore(g) ==
    /\ reg[g].pc = "store"
    /\ handlers' = [handlers EXCEPT ![reg[g].method] = reg[g].handler]
    /\ handlers_mutex' = NoThread
    /\ reg' = [reg EXCEPT ![g].pc = "ret"]
    /\ UNCHANGED <<NotRegistry, hobs>>

\* register_handler returns
RegReturn(g) ==
    /\ reg[g].pc = "ret"
    /\ hobs' = [hobs EXCEPT !.returned = @ \cup {reg[g].handler}]
    /\ reg' = [reg EXCEPT ![g].pc = "idle"]
    /\ UNCHANGED <<NotRegistry, handlers, handlers_mutex>>

\* the response is sent and the connection closed; the message is dropped
ConnRespond(c) ==
    /\ conn[c].st = "Responding"
    /\ conn' = [conn EXCEPT ![c].st = "Closed", ![c].msg = "none", ![c].method = "none"]
    /\ UNCHANGED <<NotDispatch, LimiterVars>>

\* ------------------------------------------------------------ SocketServer
\* start() without the test of line 78.
SsStart_always ==
    /\ ctl.pc = "idle"
    /\ ctl' = [ctl EXCEPT !.pc = "st_create", !.ret = "none"]
    /\ UNCHANGED <<NotSock, server, acc>>

\* start(), lines 77-80: a running server returns true at once
SsStart ==
    /\ ctl.pc = "idle"
    /\ ctl' = IF server.running THEN [ctl EXCEPT !.ret = "true"]
                                ELSE [ctl EXCEPT !.pc = "st_create", !.ret = "none"]
    /\ UNCHANGED <<NotSock, server, acc>>

\* create_socket(), lines 24-56: a new socket, the old socket file removed,
\* bind and listen on the path
SsCreateSocket ==
    /\ ctl.pc = "st_create"
    /\ server' = [server EXCEPT !.server_fd = "listening", !.path = TRUE]
    /\ ctl' = [ctl EXCEPT !.pc = "st_spawn"]
    /\ UNCHANGED <<NotSock, acc>>

\* lines 86-90: running_ = true, the accept thread is started, start() returns
SsSpawn ==
    /\ ctl.pc = "st_spawn"
    /\ server' = [server EXCEPT !.running = TRUE, !.accept_thread = "joinable",
                                !.loops = @ + 1]
    /\ acc' = [NoAccept EXCEPT !.pc = "test"]
    /\ ctl' = [ctl EXCEPT !.pc = "idle", !.ret = "true"]
    /\ UNCHANGED NotSock

\* stop(), lines 93-98: nothing to do on a stopped server; else running_ = false
SsStop ==
    /\ ctl.pc = "idle"
    /\ IF server.running
          THEN /\ server' = [server EXCEPT !.running = FALSE]
               /\ ctl' = [ctl EXCEPT !.pc = "sp_shutdown", !.ret = "none"]
          ELSE /\ ctl' = [ctl EXCEPT !.ret = "void"]
               /\ UNCHANGED server
    /\ UNCHANGED <<NotSock, acc>>

\* lines 100-102: shutdown(server_fd_) ends the accept() in progress
SsShutdown ==
    /\ ctl.pc = "sp_shutdown"
    /\ server' = [server EXCEPT !.server_fd = IF @ = "none" THEN @ ELSE "shutdown"]
    /\ ctl' = [ctl EXCEPT !.pc = "sp_join"]
    /\ UNCHANGED <<NotSock, acc>>

\* lines 104-106: join() returns once the accept thread has returned
SsJoin ==
    /\ ctl.pc = "sp_join"
    /\ IF server.accept_thread = "joinable"
          THEN /\ acc.pc = "exited"
               /\ server' = [server EXCEPT !.accept_thread = "joined"]
          ELSE UNCHANGED server
    /\ ctl' = [ctl EXCEPT !.pc = "sp_cleanup"]
    /\ UNCHANGED <<NotSock, acc>>

\* cleanup_socket(), lines 67-75, and the return of stop()
SsCleanup ==
    /\ ctl.pc = "sp_cleanup"
    /\ server' = [server EXCEPT !.server_fd = "none", !.path = FALSE]
    /\ ctl' = [pc |-> "idle", ret |-> "void", stopped |-> TRUE]
    /\ UNCHANGED <<NotSock, acc>>

\* accept_connections(), line 119: while (running_)
SsLoopTest ==
    /\ acc.pc = "test"
    /\ IF server.running
          THEN /\ acc' = [acc EXCEPT !.pc = "accept"]
               /\ UNCHANGED server
          ELSE /\ acc' = [acc EXCEPT !.pc = "exited"]
               /\ server' = [server EXCEPT !.loops = @ - 1]
    /\ UNCHANGED <<NotSock, ctl>>

\* lines 120-135: accept() returns a client, whose session starts, or fails
\* after shutdown() and the loop goes on to its test
SsAccept ==
    /\ acc.pc = "accept"
    /\ \/ /\ server.server_fd = "listening"
          /\ \E m \in Sent :
                acc' = [NoAccept EXCEPT !.pc = "recv", !.msg = m, !.open = TRUE,
                                        !.afterThrow = acc.afterThrow \/ acc.threw]
       \/ /\ server.server_fd # "listening"
          /\ acc' = [acc EXCEPT !.pc = "test"]
    /\ UNCHANGED <<NotSock, server, ctl>>

\* handle_client, lines 145-150: recv(); a client that sent nothing is closed
SsRecv ==
    /\ acc.pc = "recv"
    /\ acc' = IF acc.msg = "nodata"
                 THEN [acc EXCEPT !.pc = "test", !.open = FALSE, !.closed = @ + 1]
                 ELSE [acc EXCEPT !.pc = "parse"]
    /\ UNCHANGED <<NotSock, server, ctl>>

\* IPCProtocol::parse_request and command_from_string: the command type;
\* what is not JSON or names no known command is UNKNOWN
ParseRequest(m) == IF m \in {"status", "health"} THEN m ELSE "unknown"

\* line 157
SsParse ==
    /\ acc.pc = "parse"
    /\ acc' = [acc EXCEPT !.pc = "handle", !.cmd = ParseRequest(acc.msg)]
    /\ UNCHANGED <<NotSock, server, ctl>>

\* lines 159-180: the response of the command; the health command calls
\* g_system_monitor->get_health_snapshot(), which may throw
SsHandle ==
    /\ acc.pc = "handle"
    /\ \/ /\ acc.cmd = "unknown"
          /\ acc' = [acc EXCEPT !.pc = "send",
                                !.response = [status |-> "error", code |-> "none"]]
       \/ /\ acc.cmd = "status"
          /\ acc' = [acc EXCEPT !.pc = "send",
                                !.response = [status |-> "success", code |-> "none"]]
       \/ /\ acc.cmd = "health"
          /\ \/ acc' = [acc EXCEPT !.pc = "send",
                                   !.response = [status |-> "ok", code |-> "none"]]
             \/ acc' = [acc EXCEPT !.pc = "catch", !.threw = TRUE]
    /\ UNCHANGED <<NotSock, server, ctl>>

\* lines 183-185: the response is sent
SsSend ==
    /\ acc.pc = "send"
    /\ acc' = [acc EXCEPT !.pc = "close", !.sent = @ + 1]
    /\ UNCHANGED <<NotSock, server, ctl>>

\* lines 187-191: build_error_response(e.what()) is sent
SsCatch ==
    /\ acc.pc = "catch"
    /\ acc' = [acc EXCEPT !.pc = "close", !.sent = @ + 1,
                          !.response = [status |-> "error", code |-> "none"]]
    /\ UNCHANGED <<NotSock, server, ctl>>

\* line 193: close(client_fd); back to the loop
SsClose ==
    /\ acc.pc = "close"
    /\ acc' = [acc EXCEPT !.pc = "test", !.open = FALSE, !.closed = @ + 1]
    /\ UNCHANGED <<NotSock, server, ctl>>

\* ---------------------------------------------------------------- Next
Next ==
    \/ SsStart \/ SsCreateSocket \/ SsSpawn \/ SsStop \/ SsShutdown \/ SsJoin \/ SsCleanup
    \/ SsLoopTest \/ SsAccept \/ SsRecv \/ SsParse \/ SsHandle \/ SsSend \/ SsCatch
    \/ SsClose
    \/ \E c \in Clients :
        \/ ConnAccept(c) \/ ConnRead(c) \/ ConnAdmission(c) \/ ConnParse(c)
        \/ ConnDispatch(c) \/ ConnInvoke(c) \/ ConnRespond(c)
    \/ \E g \in Registrars : RegCall(g) \/ RegLock(g) \/ RegStore(g) \/ RegReturn(g)
    \/ ResponseOk \/ ResponseErr \/ ResponseToJson
    \/ TeBegin \/ TeDisk \/ TeMemory \/ TeUpdates
    \/ TickBack
    \/ ClockTick
    \/ \E c \in Clients :
        \/ AllowCall(c) \/ AllowLock(c) \/ AllowEval(c) \/ AllowAdmit(c) \/ AllowReturn(c)
        \/ ResetCall(c) \/ ResetClear(c)
    \/ Tick
    \/ \E t \in Checkers :
        \/ RcBegin(t) \/ RcMemory(t) \/ RcDisk(t) \/ RcReadCpu(t) \/ RcCpuLock(t)
        \/ RcResample(t) \/ RcCpuDelta(t) \/ RcApt(t) \/ RcStore(t)
    \/ \E c \in Callers :
        \/ Start(c) \/ StartSet(c) \/ StartSpawn(c)
        \/ Stop(c) \/ StopSet(c) \/ StopJoinable(c) \/ StopJoin(c) \/ StopJoinUB(c)
        \/ TriggerCheck(c) \/ GetSnapshot(c) \/ ForceCheck(c) \/ FcRead(c) \/ Return(c)
        \/ Destroy(c) \/ DtorLock(c) \/ DtorJoin(c) \/ DtorClear(c)
    \/ \E w \in Workers : RcPublish(w) \/ LoopTest(w) \/ Wake(w) \/ ClearRequest(w)
    \/ \E t \in Threads : RcCopy(t) \/ CsaCreate(t) \/ CsaSpawn(t) \/ CsaPush(t)
    \/ \E k \in Tasks : TaskStep(k)

Spec == Init /\ [][Next]_vars

\* ------------------------------------------------- bounded environments
\* The scheduler and the snapshot store under two concurrent callers; no LLM
\* client is configured, so no AI analysis thread is ever started.
NextMon ==
    \/ \E c \in Callers :
        \/ Start(c) \/ StartSet(c) \/ StartSpawn(c)
        \/ Stop(c) \/ StopSet(c) \/ StopJoinable(c) \/ StopJoin(c) \/ StopJoinUB(c)
        \/ TriggerCheck(c) \/ GetSnapshot(c) \/ ForceCheck(c) \/ FcRead(c) \/ Return(c)
    \/ \E w \in Workers : RcPublish(w) \/ LoopTest(w) \/ Wake(w) \/ ClearRequest(w)
    \/ \E t \in Threads : RcCopy(t) \/ CsaCreate(t)

InitMon == InitBase /\ configured = FALSE /\ obs = NoObs

SpecMon == InitMon /\ [][NextMon]_vars

\* The scheduler under one caller, whose calls follow one another; the
\* observers record.
NextSeq ==
    \/ \E c \in {"c1"} :
        \/ Start(c) \/ StartSet(c) \/ StartSpawn(c)
        \/ Stop(c) \/ StopSet(c) \/ StopJoinable(c) \/ StopJoin(c)
        \/ TriggerCheck(c) \/ GetSnapshot(c) \/ ForceCheck(c) \/ FcRead(c) \/ Return(c)
    \/ \E w \in Workers : RcPublish(w) \/ LoopTest(w) \/ Wake(w) \/ ClearRequest(w)
    \/ \E t \in Threads : RcCopy(t) \/ CsaCreate(t)

InitSeq == InitBase /\ configured = FALSE /\ obs = [NoObs EXCEPT !.on = TRUE]

SpecSeq == InitSeq /\ [][NextSeq]_vars

\* What the monitor thread does next.
WorkerStep(w) ==
    RcPublish(w) \/ LoopTest(w) \/ Wake(w) \/ ClearRequest(w) \/ RcCopy(w) \/ CsaCreate(w)

\* The same, with the operating system running the monitor thread whenever it
\* can take a step (its sleep ends, its check goes on) and a thread that is
\* inside stop() after line 151.
SpecSeqFair ==
    /\ InitSeq /\ [][NextSeq]_vars
    /\ \A w \in Workers : WF_vars(WorkerStep(w))
    /\ \A c \in Callers : WF_vars(StopJoinable(c) \/ StopJoin(c))

\* The enrichment threads: one caller (start, stop, force_check, the
\* destructor), the monitor thread and the AI analysis threads, with the LLM
\* client configured.
NextPool ==
    \/ \E c \in {"c1"} :
        \/ Start(c) \/ StartSet(c) \/ StartSpawn(c)
        \/ Stop(c) \/ StopSet(c) \/ StopJoinable(c) \/ StopJoin(c)
        \/ ForceCheck(c) \/ FcRead(c) \/ Return(c)
        \/ Destroy(c) \/ DtorLock(c) \/ DtorJoin(c) \/ DtorClear(c)
    \/ \E w \in Workers : RcPublish(w) \/ LoopTest(w) \/ Wake(w) \/ ClearRequest(w)
    \/ \E t \in Threads : RcCopy(t) \/ CsaCreate(t) \/ CsaSpawn(t) \/ CsaPush(t)
    \/ \E k \in Tasks : TaskStep(k)

InitPool == InitBase /\ configured = TRUE /\ obs = NoObs

SpecPool == InitPool /\ [][NextPool]_vars

\* The same, with the operating system running every AI analysis thread that
\* can take a step.
SpecPoolFair == InitPool /\ [][NextPool]_vars /\ \A k \in Tasks : WF_vars(TaskStep(k))

\* create_smart_alert and its AI analysis threads in detail: the monitor
\* thread makes the calls, one caller starts and stops the scheduler; the LLM
\* client is configured or not; the observers of create_smart_alert record.
NextEnrich ==
    \/ \E c \in {"c1"} :
        \/ Start(c) \/ StartSet(c) \/ StartSpawn(c)
        \/ Stop(c) \/ StopSet(c) \/ StopJoinable(c) \/ StopJoin(c) \/ Return(c)
    \/ \E w \in Workers :
        \/ RcPublish(w) \/ LoopTest(w) \/ Wake(w) \/ ClearRequest(w)
        \/ RcCopy(w) \/ CsaCreate(w) \/ CsaSpawn(w) \/ CsaPush(w)
    \/ \E k \in Tasks : TaskStep(k)

InitEnrich ==
    InitBase /\ configured \in BOOLEAN /\ obs = [NoObs EXCEPT !.detail = TRUE]

SpecEnrich == InitEnrich /\ [][NextEnrich]_vars

\* ----------------------------------------------------------------- claims
\* C1: when the destructor (pool shutdown) has returned, every AI analysis
\* thread that was started has ended and has been joined: no thread slot is
\* occupied and no creator still holds an unlisted thread.
AllTasksJoinedAtShutdown ==
    destroyed => /\ \A k \in Tasks : tasks[k].pc = "none"
                 /\ \A t \in Threads : held[t] = 0
                 /\ ai_threads = <<>>
                 /\ AliveWorkers = {}

\* the destructor has returned after joining two entries of ai_threads_
ShutdownJoinedTasks == destroyed /\ it > 2

\* C2: a task whose start check found running_ false called no backend and
\* created no secondary alert; so did every task started while running_ was
\* false (shutdown begun, the scheduler not started again since).
CancelledTaskDoesNothing ==
    \A k \in Tasks :
        /\ tasks[k].cancelled => ~tasks[k].backend /\ tasks[k].secondary = 0
        /\ tasks[k].lateSubmit =>
              /\ ~tasks[k].backend /\ tasks[k].secondary = 0
              /\ tasks[k].pc \in {"start", "guard", "ending", "exited"}

\* stop() has set running_ false and waits for the monitor thread; a task that
\* the monitor thread's check started after that has run to its end, cancelled
CancelledLateTask ==
    /\ pc["c1"] = "sp_wait"
    /\ \E k \in Tasks :
          tasks[k].lateSubmit /\ tasks[k].cancelled /\ tasks[k].pc = "exited"

\* C3: a task that has left its lambda, by whichever path, has set its done
\* flag; and every started task eventually sets it.
TaskAlwaysSetsDone ==
    /\ [](\A k \in Tasks : tasks[k].pc \in {"ending", "exited"} => tasks[k].done)
    /\ \A k \in Tasks : (tasks[k].pc = "start") ~> tasks[k].done

\* one task ended by the cancellation path and one by the exception path
TasksEndedOnTwoPaths ==
    /\ tasks[1].pc = "exited" /\ tasks[1].cancelled
    /\ tasks[2].pc = "exited" /\ tasks[2].backend /\ tasks[2].secondary = 0

\* C4 (as the claim states it): in the step in which a stop() call returns, no
\* monitor thread is alive.
StopReturnsAfterWorkerExit ==
    [][\A c \in Callers :
          pc[c] # "sp_done" /\ pc'[c] = "sp_done" => AliveWorkers' = {}]_vars

\* C5 (as the claim states it): once a stop() call has returned, and until
\* start() sets running_ again, no thread is inside run_checks().
NoCheckAfterStop ==
    \A c \in Callers :
        pc[c] = "sp_done" /\ ~running => \A t \in Threads : pc[t] \notin CheckPcs

\* C6: start() calls that follow one another leave exactly one monitor thread
\* while running_ is set: start() on a running scheduler returns at line 135
\* without spawning, and std::terminate is never reached.
OneWorkerAfterStarts ==
    /\ ~crashed
    /\ Cardinality(AliveWorkers) <= 1
    /\ running /\ pc["c1"] # "st_spawn" => Cardinality(AliveWorkers) = 1
    /\ pc["c1"] = "st_running" => running /\ monitor_thread \in AliveWorkers

\* start() has returned at line 135 with the monitor thread of an earlier
\* start() past its first check
StartOnRunningScheduler ==
    /\ pc["c1"] = "st_running"
    /\ \E w \in Workers : pc[w] = "ml_sleep"

\* The monitor thread is between two wakes (or has ended): what the last wake
\* had to do is done.
WakeHandled == \A w \in Workers : pc[w] \in {"none", "ml_test", "ml_sleep", "exited"}

\* C7 (as the claim states it): when trigger_check() was called between the
\* previous wake and this one, this wake runs exactly one check.
CallsBetweenWakesRunOneCheck ==
    WakeHandled /\ obs.woke /\ obs.wokeWith >= 1 => obs.wakeChecks = 1

\* C7 (amended): trigger_check() calls made since the monitor thread last
\* cleared the flag leave it set (and it is set by nothing else); a wake that
\* finds the flag set runs exactly one check, whatever the number of calls, and
\* no wake runs more than one.
TriggersCoalesceFromLastClear ==
    /\ check_requested <=> obs.sinceClear >= 1
    /\ obs.wakeChecks <= 1
    /\ WakeHandled /\ obs.woke /\ obs.sawFlag => obs.wakeChecks = 1

\* two trigger_check() calls since the previous wake, one check at this wake
TwoTriggersOneCheck ==
    /\ WakeHandled /\ obs.woke /\ obs.sawFlag
    /\ obs.wokeWith >= 2 /\ obs.wakeChecks = 1

\* C8 (as the claim states it): the snapshot check_thresholds evaluates is the
\* one the same run_checks() call stored.
EvaluatesOwnSnapshot ==
    \A t \in Threads : pc[t] \in CheckPcs \ {"rc_copy"} => copy[t].by = t

\* C9 (as the claim states it): the stored snapshot is only ever written by a
\* monitor thread.
StoredSnapshotByWorker == current_snapshot.by \in Workers \cup {NoThread}

\* C9 (amended): the stored snapshot changes only in the step in which a thread
\* that runs run_checks() (the monitor thread, or a force_check() caller) stores
\* its own; every other step of every thread leaves it as it is, and what a
\* reader is handed is a copy of the stored snapshot taken in one step.
SnapshotWrittenOnlyByChecks ==
    [][/\ current_snapshot' # current_snapshot =>
            \E t \in Threads : /\ pc[t] \in {"idle", "rc_pub"} /\ pc'[t] = "rc_copy"
                               /\ ~published[t] /\ published'[t]
                               /\ current_snapshot'.by = t
       /\ \A c \in Callers : ret'[c] # ret[c] /\ ret'[c] # NoSnap =>
            ret'[c] = current_snapshot /\ current_snapshot' = current_snapshot]_vars

\* get_snapshot() has returned a copy of a snapshot that a force_check() caller
\* stored
ReaderGotCallerSnapshot ==
    \E c \in Callers :
        pc[c] = "gs_done" /\ ret[c] = current_snapshot /\ current_snapshot.by \in Callers

\* C10 (as the claim states it): force_check() returns the snapshot that its
\* own run_checks() call stored.
ForceCheckReturnsOwn ==
    \A c \in Callers : pc[c] = "fc_done" /\ published[c] => ret[c].by = c

\* The threads that ended after calling the backend, and those whose lambda an
\* exception left.
TaskOver(k) == tasks[k].pc \in {"guard", "ending", "exited"}

\* C11 (as the claim states it): a task that passed the running_ test and
\* resolved the alert store (so it went on to generate_ai_alert) has, when it
\* is over, created exactly one secondary alert, which names its parent alert
\* and embeds the analysis if there was text, the "unavailable" notice if not.
EveryAnalysisRecorded ==
    \A k \in Tasks :
        TaskOver(k) /\ tasks[k].backend =>
            /\ tasks[k].secondary = 1
            /\ tasks[k].ref = tasks[k].parent
            /\ tasks[k].message =
                   (IF tasks[k].analysis = "text" THEN "analysis" ELSE "unavailable")

\* C12 (as the claim states it): a task whose try block an exception left
\* still ends normally and has created the "unavailable" secondary alert for
\* its parent alert.
ExceptionTakesFailurePath ==
    \A k \in Tasks :
        tasks[k].threw /\ tasks[k].pc \in {"ending", "exited"} =>
            /\ tasks[k].done
            /\ tasks[k].secondary = 1
            /\ tasks[k].message = "unavailable"
            /\ tasks[k].ref = tasks[k].parent

\* The alert store is gone: the SystemMonitor has released its shared_ptr and
\* no AI analysis thread holds one (other owners may have released theirs).
StoreGone == destroyed /\ \A k \in Tasks : ~tasks[k].strong

\* C13: a task is in generate_ai_alert or at alert_mgr->create only while it
\* holds the shared_ptr that weak_alert_mgr.lock() gave it, so never when the
\* store is gone; a task whose lock() failed has called no backend and written
\* nothing.
TaskWritesThroughStrongRef ==
    \A k \in Tasks :
        /\ tasks[k].pc \in {"generate", "create"} => tasks[k].strong /\ ~StoreGone
        /\ tasks[k].strong => tasks[k].pc \in {"generate", "create"}
        /\ TaskOver(k) /\ ~tasks[k].cancelled /\ ~tasks[k].backend =>
              tasks[k].secondary = 0

\* the destructor has begun and waits, while a task that holds the store is
\* about to create its secondary alert
TaskWritesDuringShutdown ==
    /\ dtor # NoThread /\ ~destroyed
    /\ \E k \in Tasks : tasks[k].pc = "create" /\ tasks[k].strong

\* C14: a thread is started only in a create_smart_alert call whose primary
\* alert was created with a non-empty id, with the LLM client configured, and
\* after that creation; a call that has returned started exactly one thread in
\* that case and none if the id was empty or the client not configured.
SubmitStartsOneTaskIffConfigured ==
    \A t \in Threads :
        /\ pc[t] \in {"csa_spawn", "csa_push"} =>
              obs.call[t].prim = "ok" /\ configured
        /\ pc[t] = "csa_spawn" => obs.call[t].spawned = 0
        /\ pc[t] = "csa_push" => obs.call[t].spawned = 1 /\ held[t] # 0
        /\ obs.last[t].prim # "none" =>
              obs.last[t].spawned =
                  (IF obs.last[t].prim = "ok" /\ configured THEN 1 ELSE 0)

\* a create_smart_alert call has returned after creating the primary alert and
\* starting its one thread
SubmitStartedOneTask ==
    \E t \in Threads : obs.last[t] = [prim |-> "ok", spawned |-> 1] /\ pc[t] = "ml_test"

\* ------------------------------------------------------------ collectors
\* The collectors of run_checks in the checks of the worker, one after another.
NextCollect ==
    \/ Tick
    \/ \E t \in {"w1"} :
        \/ RcBegin(t) \/ RcMemory(t) \/ RcDisk(t) \/ RcReadCpu(t) \/ RcCpuLock(t)
        \/ RcResample(t) \/ RcCpuDelta(t) \/ RcApt(t) \/ RcStore(t)

InitCollect == InitBase /\ configured = FALSE /\ obs = NoObs

SpecCollect == InitCollect /\ [][NextCollect]_vars

\* C15 (as the claim states it): a check whose CPU sample failed stores the
\* cpu_usage_percent that was stored before, and a check that a memory, disk
\* or package collector ended stores nothing.
FailedCollectorKeepsField ==
    [][\A t \in Checkers :
          /\ (chk[t].pc = "store" /\ chk[t].cpuFailed /\ chk'[t].pc = "idle")
                => metrics'.cpu = metrics.cpu
          /\ (chk'[t].pc = "idle" /\ chk'[t].failed # "none") => metrics' = metrics]_vars

\* ------------------------------------------------------------ RateLimiter
\* Two clients of one RateLimiter, calling allow() and reset() as time passes.
NextLimiter ==
    \/ ClockTick
    \/ \E c \in Clients :
        \/ AllowCall(c) \/ AllowLock(c) \/ AllowEval(c) \/ AllowAdmit(c) \/ AllowReturn(c)
        \/ ResetCall(c) \/ ResetClear(c)

InitLimiter == InitBase /\ configured = FALSE /\ obs = NoObs

SpecLimiter == InitLimiter /\ [][NextLimiter]_vars

\* a call of allow() that has returned
Returned(c) == req[c].pc = "a_ret"

\* C16: in the window that begins at construction the first Limit calls of
\* allow() return true and every further call returns false; the first call
\* evaluated once a full window has elapsed returns true.
FirstLimitCallsAdmitted ==
    \A c \in Clients : Returned(c) =>
        /\ req[c].kind = "fresh" => (req[c].verdict <=> req[c].rank <= Limit)
        /\ req[c].rolled => req[c].verdict

\* the limit of the first window is used up and the next call was refused
CallOverLimitRefused ==
    \E c \in Clients :
        Returned(c) /\ req[c].kind = "fresh" /\ req[c].rank = Limit + 1 /\ ~req[c].verdict

\* C17: whatever the interleaving of the clients, no window has more than
\* Limit admissions, the counter never passes Limit, and within one window
\* the counter never decreases.
AdmissionsBoundedPerWindow ==
    /\ [](lobs.admitted <= Limit /\ limiter.count <= Limit)
    /\ [][lobs'.epoch = lobs.epoch => limiter'.count >= limiter.count]_vars

\* two clients are inside allow() at once, in a window that is full
ClientsContendOnFullWindow ==
    /\ req["r1"].pc = "a_admit" /\ req["r2"].pc = "a_lock"
    /\ lobs.admitted = Limit /\ ~req["r1"].verdict

\* C18: the call that finds the window elapsed starts the new window with
\* the counter at zero before it is tested, is admitted as the first call of
\* that window, and in every window begun this way the calls up to the
\* Limit-th are admitted and the later ones refused.
RolloverBeforeEvaluation ==
    \A c \in Clients :
        /\ (req[c].pc = "a_admit" /\ req[c].rolled) =>
                /\ limiter.count = 0 /\ limiter.window_start = req[c].t
                /\ req[c].verdict /\ req[c].rank = 1
        /\ (Returned(c) /\ req[c].kind = "rolled") =>
                (req[c].verdict <=> req[c].rank <= Limit)

\* a window begun by a rollover is used up and the next call was refused
RolledWindowUsedUp ==
    \E c \in Clients :
        /\ Returned(c) /\ req[c].kind = "rolled"
        /\ req[c].rank = Limit + 1 /\ ~req[c].verdict

\* C19: after reset() the next Limit calls of allow() are admitted and, also
\* with reset() and allow() called concurrently, no more than Limit calls are
\* admitted between a reset and the next begin of a window.
ResetClearsWindow ==
    /\ \A c \in Clients : (Returned(c) /\ req[c].kind = "reset") =>
            (req[c].verdict <=> req[c].rank <= Limit)
    /\ lobs.kind = "reset" => lobs.admitted <= Limit /\ limiter.count <= lobs.admitted

\* the window begun by reset() has been used up and the next call was refused
ResetWindowUsedUp ==
    \E c \in Clients :
        /\ Returned(c) /\ req[c].kind = "reset"
        /\ req[c].rank = Limit + 1 /\ ~req[c].verdict

\* ------------------------------------------------------------ dispatcher
\* Two connection threads of one dispatcher, serving sessions as time passes.
NextDispatch ==
    \/ ClockTick
    \/ \E c \in Clients :
        \/ ConnAccept(c) \/ ConnRead(c)
        \/ AllowLock(c) \/ AllowEval(c) \/ AllowAdmit(c)
        \/ ConnAdmission(c) \/ ConnParse(c) \/ ConnDispatch(c) \/ ConnInvoke(c)
        \/ ConnRespond(c)

InitDispatch == InitBase /\ configured = FALSE /\ obs = NoObs

SpecDispatch == InitDispatch /\ [][NextDispatch]_vars

\* C20: nothing is parsed, looked up or invoked for a request before the
\* rate limiter admitted it; a rejected request gets RATE_LIMITED as its
\* response and its session ends closed with nothing parsed, looked up or
\* invoked; a request is admitted exactly when it is among the first Limit
\* of its window.
AdmissionBeforeParsing ==
    \A c \in Clients :
        /\ (conn[c].parsed \/ conn[c].looked \/ conn[c].invoked) => conn[c].admitted = "yes"
        /\ conn[c].st \in {"Parsing", "Dispatching"} => conn[c].admitted = "yes"
        /\ conn[c].admitted = "no" =>
              /\ conn[c].st \in {"Responding", "Closed"}
              /\ conn[c].response = "RATE_LIMITED"
        /\ conn[c].admitted # "none" => (conn[c].admitted = "yes" <=> conn[c].rank <= Limit)
        /\ conn[c].response = "RATE_LIMITED" => conn[c].admitted = "no"

\* the request after the Limit-th of its window was answered RATE_LIMITED and
\* its connection closed
RejectedRequestClosed ==
    \E c \in Clients :
        /\ conn[c].st = "Closed" /\ conn[c].admitted = "no"
        /\ conn[c].rank = Limit + 1 /\ conn[c].response = "RATE_LIMITED"

\* ------------------------------------------------------------ SocketServer
\* One thread calling start() and stop(), the accept thread and its clients.
NextSock ==
    \/ SsStart \/ SsCreateSocket \/ SsSpawn \/ SsStop \/ SsShutdown \/ SsJoin \/ SsCleanup
    \/ SsLoopTest \/ SsAccept \/ SsRecv \/ SsParse \/ SsHandle \/ SsSend \/ SsCatch
    \/ SsClose

InitSock == InitBase /\ configured = FALSE /\ obs = NoObs

SpecSock == InitSock /\ [][NextSock]_vars

\* handle_client has returned from the session of a client
SessionOver == acc.pc = "test" /\ acc.msg # "none"

\* C21 (as the claim states it): a session whose handler threw is answered
\* with an error response of code INTERNAL_ERROR and closed, and the accept
\* loop goes on.
HandlerExceptionAnswered ==
    /\ (acc.threw /\ acc.sent > 0) =>
            acc.response = [status |-> "error", code |-> "INTERNAL_ERROR"]
    /\ (acc.threw /\ SessionOver) => (acc.closed = 1 /\ ~acc.open)

\* C22 (as the claim states it): a request is parsed and dispatched only
\* after the rate limiter admitted it; a session that delivered a message
\* gets one response, and every session is closed once.
SessionFollowsStateMachine ==
    /\ acc.pc \in {"parse", "handle", "send", "catch"} => acc.admitted = "yes"
    /\ acc.sent <= 1 /\ acc.closed <= 1
    /\ SessionOver => /\ acc.closed = 1 /\ ~acc.open
                      /\ acc.msg # "nodata" => acc.sent = 1

WellFormed(raw) == raw \in {"ping", "bogus"}

\* C23: for a message that is not valid JSON, or has no "method", or one
\* that is not a string, Request::parse yields no request, no handler is
\* looked up or invoked, and the response is PARSE_ERROR.
MalformedRequestNotDispatched ==
    /\ \A raw \in Messages : ~WellFormed(raw) => RequestParse(raw) = Nullopt
    /\ \A c \in Clients :
        (conn[c].parsed /\ conn[c].msg \in Messages /\ ~WellFormed(conn[c].msg)) =>
          /\ ~conn[c].looked /\ ~conn[c].invoked
          /\ conn[c].st = "Responding"
          /\ conn[c].response = "PARSE_ERROR"

\* a request whose "method" is a number was answered PARSE_ERROR
NonStringMethodRefused ==
    \E c \in Clients :
        /\ conn[c].msg = "nummethod" /\ conn[c].st = "Responding"
        /\ conn[c].response = "PARSE_ERROR"

\* ------------------------------------------------------------ handler registry
\* One connection thread of the dispatcher serving sessions, within one
\* window of the rate limiter, while two other threads register handlers.
NextRegistry ==
    \/ \E c \in {"r1"} :
        \/ ConnAccept(c) \/ ConnRead(c)
        \/ AllowLock(c) \/ AllowEval(c) \/ AllowAdmit(c)
        \/ ConnAdmission(c) \/ ConnParse(c) \/ ConnDispatch(c) \/ ConnInvoke(c)
        \/ ConnRespond(c)
    \/ \E g \in Registrars : RegCall(g) \/ RegLock(g) \/ RegStore(g) \/ RegReturn(g)

InitRegistry == InitBase /\ configured = FALSE /\ obs = NoObs

SpecRegistry == InitRegistry /\ [][NextRegistry]_vars

\* the session's request has been looked up and its answer is decided
Answered(c) == conn[c].looked /\ conn[c].st \in {"Responding", "Closed"}

\* C24: a well-formed, admitted request whose method has no handler in the
\* registry when it is looked up is answered METHOD_NOT_FOUND and no handler
\* is invoked for it; one whose method has a handler is answered by what
\* that handler returns (INTERNAL_ERROR if it throws).
UnknownMethodNotFound ==
    /\ [](\A c \in Clients :
            /\ (conn[c].looked /\ conn[c].handler = 0) =>
                  /\ Answered(c)
                  /\ conn[c].response = "METHOD_NOT_FOUND"
                  /\ ~conn[c].invoked /\ conn[c].result = 0
            /\ (Answered(c) /\ conn[c].handler # 0) =>
                  /\ conn[c].invoked
                  /\ \/ conn[c].response = "ok"
                        /\ conn[c].result = HandlerResult(conn[c].handler)
                     \/ conn[c].response = "INTERNAL_ERROR" /\ conn[c].result = 0
            /\ conn[c].response = "METHOD_NOT_FOUND" =>
                  conn[c].looked /\ conn[c].handler = 0
            /\ conn[c].invoked => conn[c].handler # 0)
    /\ [][\A c \in Clients :
            (~conn[c].looked /\ conn'[c].looked) =>
                /\ conn[c].admitted = "yes" /\ WellFormed(conn[c].msg)
                /\ conn'[c].handler = handlers[conn[c].method]
                /\ conn'[c].handler = 0 \/ hobs.of[conn'[c].handler] = conn[c].method]_vars

\* a request for a method nobody has registered is refused, after an earlier
\* request of the same thread was served by the handler of its method
UnknownMethodRefused ==
    \E c \in Clients :
        /\ conn[c].st = "Responding" /\ conn[c].method = "bogus"
        /\ conn[c].looked /\ conn[c].handler = 0 /\ handlers["bogus"] = 0
        /\ conn[c].response = "METHOD_NOT_FOUND" /\ ~conn[c].invoked
        /\ conn[c].rank = 2

\* C25: a method name has at most one handler, a registration replaces the
\* handler the name had, and no registration is lost: once a call of
\* register_handler has returned, the registry holds for its method its
\* handler or one registered no earlier (never one whose registration had
\* returned before that call began), and a lookup finds such a handler.
LastRegisteredWins ==
    /\ [](\A m \in Methods :
            /\ handlers[m] # 0 => hobs.of[handlers[m]] = m
            /\ \A h \in hobs.returned : hobs.of[h] = m =>
                   handlers[m] # 0 /\ handlers[m] \notin hobs.prior[h])
    /\ [][\A c \in Clients :
            (~conn[c].looked /\ conn'[c].looked) =>
                \A h \in hobs.returned : hobs.of[h] = conn[c].method =>
                   conn'[c].handler # 0 /\ conn'[c].handler \notin hobs.prior[h]]_vars

\* two threads registered a handler for "ping" at the same time, both calls
\* have returned and a request for "ping" is answered by the later handler
ReplacedHandlerServes ==
    \E c \in Clients, h \in hobs.returned :
        /\ h > 1 /\ hobs.of[h] = "ping"
        /\ \E k \in hobs.returned : k > 1 /\ k # h /\ hobs.of[k] = "ping"
                                       /\ k \notin hobs.prior[h] /\ h \notin hobs.prior[k]
        /\ conn[c].st = "Responding" /\ conn[c].method = "ping"
        /\ conn[c].handler = h /\ conn[c].response = "ok" /\ conn[c].result = HandlerResult(h)
        /\ handlers["ping"] = h
\* ------------------------------------------------------------ Response
\* Responses are built and serialised as time passes.
NextWire == ClockTick \/ ResponseOk \/ ResponseErr \/ ResponseToJson

InitWire == InitBase /\ configured = FALSE /\ obs = NoObs

SpecWire == InitWire /\ [][NextWire]_vars

\* C27: every serialised response has "success" and "timestamp" and exactly
\* one of "result" and "error": "result", the Response's result, exactly when
\* success is true; "error", the Response's message and code, exactly when
\* it is false.
SerializedResponseShape ==
    wire.out # <<>> =>
        LET j == wire.out[1]
            keys == DOMAIN j
        IN  /\ {"success", "timestamp"} \subseteq keys
            /\ keys \subseteq {"success", "timestamp", "result", "error"}
            /\ j.success = wire.of.success
            /\ j.timestamp \in 0..(MaxClock \div MsPerSecond)
            /\ ("result" \in keys) # ("error" \in keys)
            /\ ("result" \in keys) <=> j.success
            /\ ("error" \in keys) <=> ~j.success
            /\ "result" \in keys => j.result = wire.of.result
            /\ "error" \in keys =>
                  /\ DOMAIN j.error = {"message", "code"}
                  /\ j.error.message = wire.of.error
                  /\ j.error.code = wire.of.error_code

\* an error response has been serialised after a success response
ErrorResponseSerialized ==
    /\ wire.out # <<>>
    /\ ~wire.out[1].success
    /\ wire.out[1].error = [message |-> "Not found", code |-> "-32601"]
    /\ wire.out[1].timestamp > 0
    /\ resp.success /\ wire.of # resp
\* ------------------------------------------------------------ check_thresholds
\* Snapshots are evaluated one after the other, under any configuration.
NextEval == TeBegin \/ TeDisk \/ TeMemory \/ TeUpdates

InitEval == InitBase /\ configured = FALSE /\ obs = NoObs

SpecEval == InitEval /\ [][NextEval]_vars

\* how many alerts of a severity the evaluation has emitted for a resource
Emitted(severity, type) ==
    Cardinality({i \in DOMAIN te.emitted : te.emitted[i] = AlertRequest(severity, type)})

\* C28 (as the claim states it): a finished evaluation has emitted, for disk
\* and for memory, exactly one CRITICAL and no WARNING when usage >= crit,
\* exactly one WARNING and no CRITICAL when warn <= usage < crit, and
\* nothing when usage < warn.
OneAlertPerResource ==
    te.pc = "done" =>
        \A r \in {"disk", "memory"} :
            LET usage == IF r = "disk" THEN te.disk ELSE te.memory
                warn == IF r = "disk" THEN te.config.disk_warn ELSE te.config.mem_warn
                crit == IF r = "disk" THEN te.config.disk_crit ELSE te.config.mem_crit
                type == IF r = "disk" THEN "DISK_USAGE" ELSE "MEMORY_USAGE"
            IN  /\ usage >= crit =>
                      Emitted("CRITICAL", type) = 1 /\ Emitted("WARNING", type) = 0
                /\ (warn <= usage /\ usage < crit) =>
                      Emitted("WARNING", type) = 1 /\ Emitted("CRITICAL", type) = 0
                /\ usage < warn =>
                      Emitted("WARNING", type) = 0 /\ Emitted("CRITICAL", type) = 0

\* C28: a finished evaluation of a monitor that has an alert manager has
\* emitted, for disk and for memory, exactly one CRITICAL and no WARNING
\* when usage >= crit; else exactly one WARNING and no CRITICAL when usage >=
\* warn; else nothing.  A monitor without alert manager emits nothing.
OneAlertPerResourceWithManager ==
    te.pc = "done" =>
        /\ ~te.alert_manager => te.emitted = <<>>
        /\ te.alert_manager =>
            \A r \in {"disk", "memory"} :
                LET usage == IF r = "disk" THEN te.disk ELSE te.memory
                    warn == IF r = "disk" THEN te.config.disk_warn ELSE te.config.mem_warn
                    crit == IF r = "disk" THEN te.config.disk_crit ELSE te.config.mem_crit
                    type == IF r = "disk" THEN "DISK_USAGE" ELSE "MEMORY_USAGE"
                IN  /\ usage >= crit =>
                          Emitted("CRITICAL", type) = 1 /\ Emitted("WARNING", type) = 0
                    /\ (usage < crit /\ usage >= warn) =>
                          Emitted("WARNING", type) = 1 /\ Emitted("CRITICAL", type) = 0
                    /\ (usage < crit /\ usage < warn) =>
                          Emitted("WARNING", type) = 0 /\ Emitted("CRITICAL", type) = 0

\* an evaluation found the disk over its critical threshold and the memory
\* between its two thresholds: one CRITICAL for the disk, one WARNING for
\* the memory
CriticalDiskWarningMemory ==
    /\ te.pc = "done" /\ te.alert_manager
    /\ te.config.disk_warn < te.config.disk_crit /\ te.disk >= te.config.disk_crit
    /\ te.config.mem_warn <= te.memory /\ te.memory < te.config.mem_crit
    /\ te.emitted = <<AlertRequest("CRITICAL", "DISK_USAGE"),
                      AlertRequest("WARNING", "MEMORY_USAGE")>>
\* ------------------------------------------------------------ CPU percentage
\* The checks of the worker over counters of which iowait may also decrease.
NextCpu ==
    \/ Tick \/ TickBack
    \/ \E t \in {"w1"} :
        \/ RcBegin(t) \/ RcMemory(t) \/ RcDisk(t) \/ RcReadCpu(t) \/ RcCpuLock(t)
        \/ RcResample(t) \/ RcCpuDelta(t) \/ RcApt(t) \/ RcStore(t)

InitCpu == InitBase /\ configured = FALSE /\ obs = NoObs

SpecCpu == InitCpu /\ [][NextCpu]_vars

\* C29 (as the claim states it): the CPU, memory and disk percentages of
\* every published snapshot, and the CPU percentage computed from any
\* previous and current sample, lie within [0, 100].
PercentagesInRange ==
    /\ metrics.cpu \in 0..100 /\ metrics.mem \in 0..100 /\ metrics.disk \in 0..100
    /\ \A t \in Checkers : chk[t].cpu_usage \in 0..100
\* ------------------------------------------------------------ sweep and spawn
\* the thread takes the step of lines 584-590: the sweep and the push_back
Sweeps(t) == pc[t] = "csa_push" /\ pc'[t] # "csa_push"

\* the entries of a task list
Entries(list) == {list[i] : i \in DOMAIN list}

\* C30 (as the claim states it): when a create_smart_alert call sweeps the
\* task list, the thread of its new task has not been started yet.
SweepBeforeSpawn ==
    [][\A t \in Threads : Sweeps(t) => held[t] = 0]_vars

\* C30: when a create_smart_alert call sweeps the task list, the thread of
\* its new task has already been started and is not yet in the list; the
\* sweep removes the entries whose done flag is set, keeps the others, and
\* the new task is added after it, in the same step under the list's mutex.
SweepBeforePush ==
    [][\A t \in Threads : Sweeps(t) =>
          /\ held[t] # 0 /\ tasks[held[t]].pc # "none"
          /\ held[t] \notin Entries(ai_threads)
          /\ ai_threads_mutex = NoThread
          /\ \A k \in Entries(ai_threads) : tasks[k].done <=> k \notin Entries(ai_threads')
          /\ ai_threads'[Len(ai_threads')] = held[t]
          /\ Len(ai_threads') = Cardinality({k \in Entries(ai_threads) : ~tasks[k].done}) + 1]_vars

\* a call has started its new thread, which has already finished, while a
\* finished task of an earlier call is still in the list, about to be swept
NewThreadStartedBeforeSweep ==
    \E t \in Threads :
        /\ pc[t] = "csa_push" /\ held[t] # 0
        /\ tasks[held[t]].done
        /\ Finished(ai_threads) # {}
\* ------------------------------------------------------------ the sweep
\* the task's thread has been started and its done flag is not set
Unfinished(k) == tasks[k].pc # "none" /\ ~tasks[k].done

\* C31: the sweep runs with ai_threads_mutex_ taken and joins and removes
\* only entries whose done flag is set; an entry leaves the list only in a
\* sweep or in the destructor, which holds the mutex; so every task that is
\* not finished is in the list, or still with the call that is adding it.
SweepSparesRunningTasks ==
    /\ [](\A k \in Tasks :
            Unfinished(k) => k \in Entries(ai_threads) \/ \E t \in Threads : held[t] = k)
    /\ [][\A t \in Threads : Sweeps(t) =>
            /\ ai_threads_mutex = NoThread
            /\ \A k \in Entries(ai_threads) :
                  (k \notin Entries(ai_threads') \/ tasks'[k] # tasks[k]) =>
                      tasks[k].done /\ tasks[k].pc = "exited"]_vars
    /\ [][\A k \in Entries(ai_threads) : k \notin Entries(ai_threads') =>
            \/ \E t \in Threads : Sweeps(t)
            \/ dtor # NoThread /\ ai_threads_mutex = dtor]_vars

\* a sweep has left a task that is not finished in the list and the new task
\* was added behind it
UnfinishedTaskKept ==
    /\ Len(ai_threads) = 2
    /\ Unfinished(ai_threads[1])
    /\ \A t \in Threads : held[t] = 0
InWorkerCheck == {w \in Workers : pc[w] \in {"rc_pub"} \cup CheckPcs}

\* C33: at each polling wake the worker runs exactly one check if the interval
\* has elapsed or the trigger flag is set, clearing the flag before the check
\* begins, and runs no check otherwise; a worker begins a check only at its
\* start or after such a wake, and the checks the worker starts never overlap.
OneCheckPerDueWake ==
    /\ [][\A w \in Workers :
            /\ pc[w] = "ml_sleep" /\ pc'[w] # "ml_sleep" =>
                  pc'[w] = (IF obs'.sawElapsed \/ check_requested
                            THEN "ml_clear" ELSE "ml_test")
            /\ pc[w] = "ml_clear" /\ pc'[w] # "ml_clear" =>
                  check_requested' = FALSE /\ pc'[w] = "rc_pub"
            /\ pc[w] # "rc_pub" /\ pc'[w] = "rc_pub" =>
                  pc[w] \in {"none", "ml_clear"}]_vars
    /\ [](obs.wakeChecks <= 1)
    /\ [](WakeHandled /\ obs.woke =>
            obs.wakeChecks = (IF obs.sawElapsed \/ obs.sawFlag THEN 1 ELSE 0))
    /\ [](Cardinality(InWorkerCheck) <= 1)

\* A wake that found only the trigger flag has run its one check, and the flag
\* is clear again.
TriggeredWakeRanOneCheck ==
    /\ obs.woke /\ obs.sawFlag /\ ~obs.sawElapsed /\ obs.wakeChecks = 1
    /\ WakeHandled /\ ~check_requested

\* ---------------------------------------------------------------------
\* C34: no trigger is lost.  Every trigger_check() made while the worker runs
\* and is not being stopped is followed by the start of a check: after one
\* polling wake the worker is already at the clearing of the flag that begins
\* the check, so the check starts before a second wake; and the flag is set
\* back to false only on the step that begins a check.
NoTriggerLost ==
    /\ [](running /\ monitor_thread # NoThread =>
            /\ obs.owed <= 2
            /\ obs.owed = 2 => pc[monitor_thread] = "ml_clear"
            /\ obs.owed = 1 => check_requested)
    /\ [][check_requested /\ ~check_requested' =>
            \E w \in Workers : pc[w] = "ml_clear" /\ pc'[w] = "rc_pub"]_vars
    /\ (obs.owed > 0 /\ running /\ monitor_thread # NoThread) ~>
            (obs.owed = 0 \/ ~running)

\* A trigger_check() made during a check is still owed when the worker sleeps
\* again.
TriggerDuringCheckPending ==
    /\ obs.owed = 1 /\ running /\ monitor_thread # NoThread
    /\ pc[monitor_thread] = "ml_sleep" /\ obs.woke /\ obs.wakeChecks = 1

\* ---------------------------------------------------------------------
\* C35: stop is cooperative and bounded.  Once stop() has set running_ to false
\* the worker wakes from its sleep at most once more and starts at most one
\* more check, a worker that tests the loop condition then exits, and the
\* stop() call returns with the worker joined.
StopBoundedByOneWake ==
    /\ [](obs.stopWakes <= 1 /\ obs.stopChecks <= 1)
    /\ [][\A w \in Workers :
            ~running /\ pc[w] = "ml_test" /\ pc'[w] # "ml_test" => pc'[w] = "exited"]_vars
    /\ \A c \in Callers :
          pc[c] = "sp_join" ~> (pc[c] = "sp_done" /\ monitor_thread = NoThread)

\* stop() has returned after the worker woke once more and ran one more check.
StoppedAfterLastCheck ==
    /\ obs.stopWakes = 1 /\ obs.stopChecks = 1
    /\ \E c \in Callers : pc[c] = "sp_done"
    /\ monitor_thread = NoThread /\ ~running

\* ---------------------------------------------------------------------
\* The checks of the worker and of a force_check() caller side by side, on a
\* machine where /proc/stat is readable, the memory and disk collectors report
\* level 0 and the package monitor is disabled.
NextCpuRace ==
    \/ Tick
    \/ \E t \in Checkers :
        \/ RcBegin(t)
        \/ RcMemory(t) /\ chk'[t].pc = "disk" /\ chk'[t].mem = 0
        \/ RcDisk(t) /\ chk'[t].pc = "cpu_read" /\ chk'[t].disk = 0
        \/ RcReadCpu(t) /\ ~chk'[t].cpuFailed
        \/ RcCpuLock(t)
        \/ RcResample(t) /\ ~chk'[t].cpuFailed
        \/ RcCpuDelta(t)
        \/ RcApt(t) /\ apt_counter' = apt_counter
        \/ RcStore(t)

InitCpuRace == InitBase /\ configured = FALSE /\ obs = NoObs

SpecCpuRace == InitCpuRace /\ [][NextCpuRace]_vars

\* C36 (as the claim states it): the CPU percentage of a check is computed from
\* that check's sample and the sample the preceding check stored, the check's
\* sample being the later of the two (the counters only advance here, so the
\* later sample has no smaller total); the stored sample is never replaced by
\* an older one, also when a forced check and a worker check run side by
\* side; and the re-sampling of the first check happens once.
CpuDeltaFromPrecedingSample ==
    /\ [](\A t \in Checkers :
            chk[t].pc = "cpu_delta" => total(chk[t].current) >= total(prev_cpu_counters))
    /\ [][total(prev_cpu_counters') >= total(prev_cpu_counters)]_vars
    /\ [][\A t \in Checkers :
            chk'[t].pc = "cpu_resample" /\ chk[t].pc # "cpu_resample" =>
                ~cpu_counters_initialized /\ \A u \in Checkers : chk[u].pc # "cpu_resample"]_vars
    /\ [][cpu_counters_initialized => cpu_counters_initialized']_vars

\* ---------------------------------------------------------------------
\* C37 (as the claim states it): under any interleaving of start() and stop()
\* calls from different threads at most one worker thread is alive, and the
\* worker thread handle is never overwritten or reset while the thread it
\* refers to is still running.
OneWorkerUnderConcurrentCalls ==
    /\ [](Cardinality(AliveWorkers) <= 1)
    /\ [][monitor_thread # NoThread /\ monitor_thread' # monitor_thread =>
            pc[monitor_thread] = "exited"]_vars

\* ---------------------------------------------------------------------
\* ------------------------------------------- the monitor's lock discipline
\* std::lock_guard's constructor: the thread waits until the mutex is free.
LockAcquire(t, at, m, next) ==
    /\ lk.pc[t] = at
    /\ lk.holder[m] = NoThread
    /\ lk' = [lk EXCEPT !.holder[m] = t, !.pc[t] = next]
    /\ UNCHANGED NotLocks

\* std::lock_guard's destructor at the end of its block.
LockRelease(t, at, m, next) ==
    /\ lk.pc[t] = at
    /\ lk.holder[m] = t
    /\ lk' = [lk EXCEPT !.holder[m] = NoThread, !.pc[t] = next]
    /\ UNCHANGED NotLocks

\* Where a thread goes when run_checks() is over: the loop test of
\* monitor_loop, or the read of force_check (line 186).
LockRcOver(t) == IF t = "w1" THEN "ml_test" ELSE "read_lock"

\* A member function is called on a live object.
LockCanCall(c) == lk.pc[c] = "idle" /\ lk.pc["c1"] \notin {"d_lock", "d_join", "destroyed"}

\* start(), lines 134-139, on the owner's thread
LockStart(c) ==
    /\ c = "c1" /\ lk.pc[c] = "idle" /\ ~lk.running /\ lk.pc["w1"] = "none"
    /\ lk' = [lk EXCEPT !.running = TRUE, !.pc[c] = "started", !.pc["w1"] = "rc_begin"]
    /\ UNCHANGED NotLocks

\* stop(), lines 147-151: running_ = false
LockStop(c) ==
    /\ c = "c1" /\ lk.pc[c] = "started"
    /\ lk' = [lk EXCEPT !.running = FALSE, !.pc[c] = "sp_wait"]
    /\ UNCHANGED NotLocks

\* stop(), line 154: monitor_thread_->join()
LockStopJoin(c) ==
    /\ lk.pc[c] = "sp_wait" /\ lk.pc["w1"] = "exited"
    /\ lk' = [lk EXCEPT !.pc[c] = "stopped", !.pc["w1"] = "none"]
    /\ UNCHANGED NotLocks

\* force_check() that takes snapshot_mutex_ before it calls run_checks().
LockForceCheck_locked(c) ==
    /\ c = "c2" /\ LockCanCall(c)
    /\ lk.holder["snapshot_mutex_"] = NoThread
    /\ lk' = [lk EXCEPT !.pc[c] = "rc_begin", !.holder["snapshot_mutex_"] = c]
    /\ UNCHANGED NotLocks

\* force_check(), line 184: run_checks() on the calling thread
LockForceCheck(c) ==
    /\ c = "c2" /\ LockCanCall(c)
    /\ lk' = [lk EXCEPT !.pc[c] = "rc_begin"]
    /\ UNCHANGED NotLocks

\* get_snapshot(), line 164, is called
LockGetSnapshot(c) ==
    /\ c = "c2" /\ LockCanCall(c)
    /\ lk' = [lk EXCEPT !.pc[c] = "read_lock"]
    /\ UNCHANGED NotLocks

\* get_snapshot(), line 165, and force_check(), line 186: lock snapshot_mutex_
LockReadLock(c) == LockAcquire(c, "read_lock", "snapshot_mutex_", "read_unlock")

\* lines 166 and 187: return current_snapshot_; the lock is released
LockReadUnlock(c) == LockRelease(c, "read_unlock", "snapshot_mutex_", "idle")

\* run_checks(), lines 221-229: the memory and disk collectors return, or one
\* throws into the catch of line 327
LockRcBegin(t) ==
    /\ lk.pc[t] = "rc_begin"
    /\ \E l \in {"cpu_lock", LockRcOver(t)} : lk' = [lk EXCEPT !.pc[t] = l]
    /\ UNCHANGED NotLocks

\* run_checks(), line 251
LockCpuLock(t) == LockAcquire(t, "cpu_lock", "cpu_mutex_", "cpu_unlock")

\* run_checks(), line 272: the end of the try block
LockCpuUnlock(t) == LockRelease(t, "cpu_unlock", "cpu_mutex_", "store_lock")

\* run_checks(), line 294
LockStoreLock(t) == LockAcquire(t, "store_lock", "snapshot_mutex_", "store_unlock")

\* run_checks(), line 311
LockStoreUnlock(t) == LockRelease(t, "store_unlock", "snapshot_mutex_", "copy_lock")

\* run_checks(), line 317
LockCopyLock(t) == LockAcquire(t, "copy_lock", "snapshot_mutex_", "copy_unlock")

\* run_checks(), lines 319-320: the lock is released and check_thresholds is
\* called; it will call create_smart_alert for every threshold crossed
LockCopyUnlock(t) ==
    /\ lk.pc[t] = "copy_unlock"
    /\ lk.holder["snapshot_mutex_"] = t
    /\ \E due \in 0 .. MaxDue :
          lk' = [lk EXCEPT !.holder["snapshot_mutex_"] = NoThread,
                           !.pc[t] = "thresholds", !.todo[t] = due]
    /\ UNCHANGED NotLocks

\* check_thresholds and create_smart_alert, lines 484-514: the next alert; no
\* thread when the alert id is empty or no LLM client is configured (lines
\* 495-503), else the AI analysis thread is started (line 514)
LockAlert(t) ==
    /\ lk.pc[t] = "thresholds"
    /\ IF lk.todo[t] = 0
       THEN lk' = [lk EXCEPT !.pc[t] = LockRcOver(t)]
       ELSE \/ lk' = [lk EXCEPT !.todo[t] = @ - 1]
            \/ /\ \E k \in Tasks : lk.task[k] = "none"
               /\ LET k == Min({j \in Tasks : lk.task[j] = "none"}) IN
                    lk' = [lk EXCEPT !.todo[t] = @ - 1, !.task[k] = "run",
                                     !.held[t] = k, !.pc[t] = "push_lock"]
    /\ UNCHANGED NotLocks

\* create_smart_alert, line 585
LockPushLock(t) == LockAcquire(t, "push_lock", "ai_threads_mutex_", "sweep")

\* cleanupFinishedAIThreads, lines 115-129: the next entry; one whose done
\* flag is set is joined (the call returns when the thread has ended) and
\* erased, another is passed over
LockSweep(t) ==
    /\ lk.pc[t] = "sweep"
    /\ lk.it <= Len(lk.ai_threads)
    /\ LET k == lk.ai_threads[lk.it] IN
        IF lk.task[k] = "run"
        THEN lk' = [lk EXCEPT !.it = @ + 1]
        ELSE /\ lk.task[k] = "exited"
             /\ lk' = [lk EXCEPT !.task[k] = "none",
                                  !.ai_threads = [i \in 1 .. (Len(@) - 1) |->
                                                    IF i < lk.it THEN @[i] ELSE @[i + 1]]]
    /\ UNCHANGED NotLocks

\* create_smart_alert, lines 589-590: push_back, and the lock is released
LockPush(t) ==
    /\ lk.pc[t] = "sweep"
    /\ lk.it > Len(lk.ai_threads)
    /\ lk' = [lk EXCEPT !.ai_threads = Append(@, lk.held[t]), !.held[t] = 0,
                        !.holder["ai_threads_mutex_"] = NoThread, !.it = 1,
                        !.pc[t] = "thresholds"]
    /\ UNCHANGED NotLocks

\* monitor_loop, line 202: while (running_)
LockLoopTest(w) ==
    /\ w = "w1" /\ lk.pc[w] = "ml_test"
    /\ lk' = [lk EXCEPT !.pc[w] = IF lk.running THEN "ml_sleep" ELSE "exited"]
    /\ UNCHANGED NotLocks

\* monitor_loop, lines 204-213: the sleep ends; a check is due or not
LockWake(w) ==
    /\ w = "w1" /\ lk.pc[w] = "ml_sleep"
    /\ \E l \in {"rc_begin", "ml_test"} : lk' = [lk EXCEPT !.pc[w] = l]
    /\ UNCHANGED NotLocks

\* The AI analysis thread, lines 514-582: it takes none of the three mutexes;
\* its backend calls return and DoneGuard sets the done flag (line 519)
LockTaskRun(k) ==
    /\ lk.task[k] = "run"
    /\ lk' = [lk EXCEPT !.task[k] = "done"]
    /\ UNCHANGED NotLocks

\* The thread function returns.
LockTaskExit(k) ==
    /\ lk.task[k] = "done"
    /\ lk' = [lk EXCEPT !.task[k] = "exited"]
    /\ UNCHANGED NotLocks

\* ~SystemMonitor, lines 98-102, once stop() has returned and no call is in
\* progress: lock ai_threads_mutex_
LockDestroy(c) ==
    /\ c = "c1" /\ lk.pc[c] \in {"idle", "stopped"} /\ lk.pc["c2"] = "idle"
    /\ lk' = [lk EXCEPT !.pc[c] = "d_lock"]
    /\ UNCHANGED NotLocks

\* ~SystemMonitor, line 102
LockDtorLock(c) == LockAcquire(c, "d_lock", "ai_threads_mutex_", "d_join")

\* ~SystemMonitor, lines 103-107: join the next entry
LockDtorJoin(c) ==
    /\ lk.pc[c] = "d_join"
    /\ lk.it <= Len(lk.ai_threads)
    /\ lk.task[lk.ai_threads[lk.it]] = "exited"
    /\ lk' = [lk EXCEPT !.task[lk.ai_threads[lk.it]] = "none", !.it = @ + 1]
    /\ UNCHANGED NotLocks

\* ~SystemMonitor, lines 108-109: clear, and the lock is released
LockDtorClear(c) ==
    /\ lk.pc[c] = "d_join"
    /\ lk.it > Len(lk.ai_threads)
    /\ lk' = [lk EXCEPT !.ai_threads = <<>>, !.holder["ai_threads_mutex_"] = NoThread,
                        !.it = 1, !.pc[c] = "destroyed"]
    /\ UNCHANGED NotLocks

\* What a thread that is inside a call does next.
LockStep(t) ==
    \/ LockStopJoin(t) \/ LockDtorLock(t) \/ LockDtorJoin(t) \/ LockDtorClear(t)
    \/ LockReadLock(t) \/ LockReadUnlock(t)
    \/ LockRcBegin(t) \/ LockCpuLock(t) \/ LockCpuUnlock(t) \/ LockStoreLock(t)
    \/ LockStoreUnlock(t) \/ LockCopyLock(t) \/ LockCopyUnlock(t) \/ LockAlert(t)
    \/ LockPushLock(t) \/ LockSweep(t) \/ LockPush(t) \/ LockLoopTest(t) \/ LockWake(t)

NextLocks ==
    \/ \E c \in {"c1", "c2"} :
        \/ LockStart(c) \/ LockStop(c) \/ LockStopJoin(c) \/ LockDestroy(c)
        \/ LockDtorLock(c) \/ LockDtorJoin(c) \/ LockDtorClear(c)
        \/ LockForceCheck(c) \/ LockGetSnapshot(c) \/ LockReadLock(c) \/ LockReadUnlock(c)
    \/ \E w \in {"w1"} : LockLoopTest(w) \/ LockWake(w)
    \/ \E t \in LockCheckers :
        \/ LockRcBegin(t) \/ LockCpuLock(t) \/ LockCpuUnlock(t) \/ LockStoreLock(t)
        \/ LockStoreUnlock(t) \/ LockCopyLock(t) \/ LockCopyUnlock(t) \/ LockAlert(t)
        \/ LockPushLock(t) \/ LockSweep(t) \/ LockPush(t)
    \/ \E k \in Tasks : LockTaskRun(k) \/ LockTaskExit(k)

InitLocks == InitBase /\ configured = TRUE /\ obs = NoObs

\* The threads run whenever they can: a thread that waits for a mutex which is
\* released again and again gets it in the end.
SpecLocks ==
    /\ InitLocks /\ [][NextLocks]_vars
    /\ \A t \in LockThreads : SF_vars(LockStep(t))
    /\ \A k \in Tasks : WF_vars(LockTaskRun(k) \/ LockTaskExit(k))

\* The mutexes a thread is inside.
HeldBy(t) == {m \in Mutexes : lk.holder[m] = t}

\* C38: no deadlock among the worker, force_check callers, get_snapshot
\* readers, the AI analysis threads and shutdown.  No thread waits for one of
\* snapshot_mutex_, cpu_mutex_, ai_threads_mutex_ while it is inside another
\* (so there is no cyclic lock order), a step of an AI analysis thread never
\* takes a mutex, some thread can always take a step until the object is
\* destroyed, and every call that has begun returns: stop(), the destructor
\* with its joins under ai_threads_mutex_, force_check() and get_snapshot().
MonitorLocksNeverDeadlock ==
    /\ [](\A t \in LockThreads : Cardinality(HeldBy(t)) <= 1)
    /\ [](\A t \in LockThreads :
            lk.pc[t] \in {"cpu_lock", "store_lock", "copy_lock", "read_lock",
                          "push_lock", "d_lock"} => HeldBy(t) = {})
    /\ [][\A k \in Tasks :
            lk.task[k] \in {"run", "done"} /\ lk'.task[k] # lk.task[k] =>
                lk'.holder = lk.holder]_vars
    /\ [](lk.pc["c1"] = "destroyed" \/ ENABLED NextLocks)
    /\ (lk.pc["c1"] = "sp_wait" ~> lk.pc["c1"] = "stopped")
    /\ (lk.pc["c1"] = "d_lock" ~> lk.pc["c1"] = "destroyed")
    /\ (lk.pc["c2"] # "idle" ~> lk.pc["c2"] = "idle")

\* The destructor waits, inside ai_threads_mutex_, for an AI analysis thread
\* that is still running.
DestructorJoinsRunningTask ==
    /\ lk.pc["c1"] = "d_join" /\ lk.holder["ai_threads_mutex_"] = "c1"
    /\ lk.it <= Len(lk.ai_threads) /\ lk.task[lk.ai_threads[lk.it]] = "run"

\* ---------------------------------------------------------------------
\* -------------------------------------------------------- InferenceQueue
\* The system clock advances, up to the end of the first window after
\* construction.
QueueTick ==
    /\ iq.clock < WINDOW_SIZE_MS
    /\ iq' = [iq EXCEPT !.clock = @ + ClockStep]
    /\ UNCHANGED NotQueue

\* check_rate_limit(), lines 24-42: what it leaves in rate_limiter_ and what
\* it returns.  A window that has run out is reset and the call is let
\* through; else the call is counted and let through below the maximum.
CheckRateLimit(rl, now_ms) ==
    IF now_ms - rl.last_reset >= WINDOW_SIZE_MS
    THEN [rate_limiter |-> [last_reset |-> now_ms, requests_in_window |-> 0], ok |-> TRUE]
    ELSE IF rl.requests_in_window < MAX_REQUESTS_PER_SECOND
         THEN [rate_limiter |-> [rl EXCEPT !.requests_in_window = @ + 1], ok |-> TRUE]
         ELSE [rate_limiter |-> rl, ok |-> FALSE]

\* enqueue(), line 46, and check_rate_limit(), lines 26-28 and 30, 36: the
\* clock and rate_limiter_ are read (no mutex protects rate_limiter_) and the
\* outcome is computed
Enqueue(e) ==
    /\ iq.pc[e] = "idle"
    /\ iq' = [iq EXCEPT !.seen[e] = CheckRateLimit(iq.rate_limiter, iq.clock),
                        !.pc[e] = "crl_store"]
    /\ UNCHANGED NotQueue

\* check_rate_limit(), lines 31-32 and 37: the new count and window start are
\* written, over whatever another thread wrote meanwhile (a data race on plain
\* members); enqueue(), lines 46-51: a refused call returns false with the
\* rate-limit error
EnqueueLimit(e) ==
    /\ iq.pc[e] = "crl_store"
    /\ LET r == iq.seen[e] IN
        iq' = [iq EXCEPT !.rate_limiter = r.rate_limiter,
                         !.seen[e] = NoQueue.seen[e],
                         !.admitted = IF r.rate_limiter.last_reset # iq.rate_limiter.last_reset
                                      THEN 0 ELSE @,
                         !.error = IF r.ok THEN @ ELSE "rate_limit",
                         !.pc[e] = IF r.ok THEN "eq_lock" ELSE "idle"]
    /\ UNCHANGED NotQueue

\* enqueue(), lines 54-63: under queue_mutex_, a full queue refuses the
\* request, else it is pushed
EnqueuePush(e) ==
    /\ iq.pc[e] = "eq_lock"
    /\ iq.queue_mutex = NoThread
    /\ iq' = IF iq.queue >= QueueCapacity
             THEN [iq EXCEPT !.error = "queue_full", !.pc[e] = "idle"]
             ELSE [iq EXCEPT !.queue = @ + 1, !.admitted = @ + 1, !.pc[e] = "eq_notify"]
    /\ UNCHANGED NotQueue

\* What notify_one() and notify_all() do to the one thread that may wait: a
\* thread blocked in wait() is woken, a thread that is not is not.
Notified(q) ==
    IF q.waiting THEN [q EXCEPT !.waiting = FALSE, !.pc["qw"] = "pq_wake"] ELSE q

\* enqueue(), lines 64-65: queue_cv_.notify_one(); return true
EnqueueNotify(e) ==
    /\ iq.pc[e] = "eq_notify"
    /\ iq' = [Notified(iq) EXCEPT !.pc[e] = "idle"]
    /\ UNCHANGED NotQueue

\* start(), lines 72-80
QueueStart(s) ==
    /\ s = "s1" /\ iq.pc[s] = "idle"
    /\ iq.pc["qw"] = "none"
    /\ iq' = IF iq.running THEN iq
             ELSE [iq EXCEPT !.running = TRUE, !.worker_thread = TRUE,
                             !.pc["qw"] = "pq_test"]
    /\ UNCHANGED NotQueue

\* stop(), line 83: running_ = false, outside queue_mutex_
QueueStop(s) ==
    /\ s = "s1" /\ iq.pc[s] = "idle"
    /\ iq' = [iq EXCEPT !.running = FALSE, !.pc[s] = "st_notify"]
    /\ UNCHANGED NotQueue

\* stop(), line 84: queue_cv_.notify_all(), outside queue_mutex_
QueueStopNotify(s) ==
    /\ iq.pc[s] = "st_notify"
    /\ iq' = [Notified(iq) EXCEPT !.pc[s] = "st_join"]
    /\ UNCHANGED NotQueue

\* stop(), lines 86-90: join the worker if the handle is joinable
QueueStopJoin(s) ==
    /\ iq.pc[s] = "st_join"
    /\ IF iq.worker_thread
       THEN /\ iq.pc["qw"] = "exited"
            /\ iq' = [iq EXCEPT !.worker_thread = FALSE, !.pc["qw"] = "none",
                                !.pc[s] = "idle"]
       ELSE iq' = [iq EXCEPT !.pc[s] = "idle"]
    /\ UNCHANGED NotQueue

\* process_queue(), line 101: while (running_)
QueueLoopTest(w) ==
    /\ iq.pc[w] = "pq_test"
    /\ iq' = [iq EXCEPT !.pc[w] = IF iq.running THEN "pq_lock" ELSE "exited"]
    /\ UNCHANGED NotQueue

\* process_queue(), line 105, and wait()'s return: take queue_mutex_
QueueLock(w) ==
    /\ iq.pc[w] \in {"pq_lock", "pq_wake"}
    /\ iq.queue_mutex = NoThread
    /\ iq' = [iq EXCEPT !.queue_mutex = w, !.pc[w] = "pq_pred"]
    /\ UNCHANGED NotQueue

\* process_queue(), line 106: wait(lock, pred) evaluates
\* !queue_.empty() || !running_ under the mutex
QueuePredicate(w) ==
    /\ iq.pc[w] = "pq_pred"
    /\ iq' = [iq EXCEPT !.pc[w] = IF iq.queue > 0 \/ ~iq.running
                                  THEN "pq_check" ELSE "pq_wait"]
    /\ UNCHANGED NotQueue

\* wait(lock): the mutex is released and the thread blocks, in one step
QueueWait(w) ==
    /\ iq.pc[w] = "pq_wait"
    /\ iq' = [iq EXCEPT !.queue_mutex = NoThread, !.waiting = TRUE, !.pc[w] = "pq_blocked"]
    /\ UNCHANGED NotQueue

\* A spurious wakeup: wait() may return although nobody notified.
QueueSpuriousWake(w) ==
    /\ iq.pc[w] = "pq_blocked" /\ iq.waiting
    /\ iq' = [iq EXCEPT !.waiting = FALSE, !.pc[w] = "pq_wake"]
    /\ UNCHANGED NotQueue

\* process_queue(), lines 108-113: leave the loop, go round again, or pop the
\* front request; the lock is released
QueuePop(w) ==
    /\ iq.pc[w] = "pq_check"
    /\ iq' = IF ~iq.running
             THEN [iq EXCEPT !.queue_mutex = NoThread, !.pc[w] = "exited"]
             ELSE IF iq.queue = 0
                  THEN [iq EXCEPT !.queue_mutex = NoThread, !.pc[w] = "pq_test"]
                  ELSE [iq EXCEPT !.queue_mutex = NoThread, !.queue = @ - 1,
                                  !.pc[w] = "pq_infer"]
    /\ UNCHANGED NotQueue

\* process_queue(), lines 116-126: the request is processed
QueueInfer(w) ==
    /\ iq.pc[w] = "pq_infer"
    /\ iq' = [iq EXCEPT !.pc[w] = "pq_test"]
    /\ UNCHANGED NotQueue

\* What the worker does next of itself.
QueueWorkerStep(w) ==
    \/ QueueLoopTest(w) \/ QueueLock(w) \/ QueuePredicate(w) \/ QueueWait(w)
    \/ QueuePop(w) \/ QueueInfer(w)

\* The clients, the start of the queue and the worker.
NextAdmit ==
    \/ QueueTick
    \/ \E e \in QueueClients :
        Enqueue(e) \/ EnqueueLimit(e) \/ EnqueuePush(e) \/ EnqueueNotify(e)
    \/ \E s \in {"s1"} : QueueStart(s)
    \/ \E w \in {"qw"} : QueueWorkerStep(w) \/ QueueSpuriousWake(w)

InitAdmit ==
    InitBase /\ configured = FALSE /\ obs = NoObs

SpecAdmit == InitAdmit /\ [][NextAdmit]_vars

\* C39 (as the claim states it): enqueue admits at most
\* MAX_REQUESTS_PER_SECOND requests within one rate-limit window, for
\* sequential and for concurrent callers, and a further request in that
\* window is refused with the rate-limit error and is not queued.
EnqueueAdmitsAtMostLimit ==
    /\ [](iq.admitted <= MAX_REQUESTS_PER_SECOND)
    /\ [][\A e \in QueueClients :
            /\ iq.pc[e] = "crl_store" /\ iq'.pc[e] # "crl_store"
            /\ iq.admitted >= MAX_REQUESTS_PER_SECOND
            /\ iq'.rate_limiter.last_reset = iq.rate_limiter.last_reset
            => iq'.pc[e] = "idle" /\ iq'.error = "rate_limit" /\ iq'.queue = iq.queue]_vars

\* ---------------------------------------------------------------------
\* start() and stop() of the queue beside one client and the worker.
NextQueueStop ==
    \/ \E e \in {"e1"} :
        Enqueue(e) \/ EnqueueLimit(e) \/ EnqueuePush(e) \/ EnqueueNotify(e)
    \/ \E s \in {"s1"} :
        QueueStart(s) \/ QueueStop(s) \/ QueueStopNotify(s) \/ QueueStopJoin(s)
    \/ \E w \in {"qw"} : QueueWorkerStep(w) \/ QueueSpuriousWake(w)

InitQueueStop == InitBase /\ configured = FALSE /\ obs = NoObs

\* The worker and a thread inside stop() run whenever they can; nothing
\* obliges a client to enqueue or a wait to end spuriously.
SpecQueueStop ==
    /\ InitQueueStop /\ [][NextQueueStop]_vars
    /\ WF_vars(QueueWorkerStep("qw"))
    /\ WF_vars(QueueStopNotify("s1") \/ QueueStopJoin("s1"))

\* C40 (as the claim states it): stop() always returns.  Under every
\* interleaving of stop(), which clears running_ and notifies without holding
\* queue_mutex_, with the worker's predicate check and wait, the worker leaves
\* process_queue and is joined.
QueueStopAlwaysReturns ==
    iq.pc["s1"] = "st_notify" ~>
        (iq.pc["s1"] = "idle" /\ iq.pc["qw"] = "none" /\ ~iq.worker_thread)
====
